---- MODULE Spec2Model ----
(***************************************************************************)
(* A model of the AI voice assistant server (src/unnamed/part_001) and of  *)
(* its configuration (src/unnamed/part_000): the phone-channel turn        *)
(* pipeline, the web chat endpoint, the transcription endpoint with its    *)
(* upload middleware, the audio-file janitor and the process handlers.     *)
(*                                                                         *)
(* Texts the server treats as opaque (utterances, replies) are strings.    *)
(* Texts the server takes apart (the correction provider's reply, error    *)
(* messages tested with includes) are sequences of one-character strings,  *)
(* so that the pattern matches are computed, not assumed.                  *)
(***************************************************************************)
EXTENDS Integers, Sequences, FiniteSets, TLC

\* ------------------------------------------------------------------------
\* Bounds of the model
\* ------------------------------------------------------------------------

\* Number of handler invocations that may be awaiting a provider at once.
MaxInFlight == 2

\* Number of turns a stored transcript may hold (entries = 1 + 2 * turns).
MaxTurns == 2

\* Number of uuidv4() names drawn for files during one run of the process.
MaxUuid == 2

\* Number of artifacts the janitor is given when it runs on its own.
MaxArtifacts == 4

\* the distinct values Date.now() takes while /test-audio runs
MaxTestAudio == 2

\* ------------------------------------------------------------------------
\* JavaScript values
\* ------------------------------------------------------------------------

Undefined == "<undefined>"
Null == "<null>"
InheritedValue == "<inherited>"

Truthy(v) == v # Undefined /\ v # Null /\ v # ""

\* ------------------------------------------------------------------------
\* Character-level text
\* ------------------------------------------------------------------------

UpperCase ==
    << "A", "B", "C", "D", "E", "F", "G", "H", "I", "J", "K", "L", "M",
       "N", "O", "P", "Q", "R", "S", "T", "U", "V", "W", "X", "Y", "Z" >>

LowerCase ==
    << "a", "b", "c", "d", "e", "f", "g", "h", "i", "j", "k", "l", "m",
       "n", "o", "p", "q", "r", "s", "t", "u", "v", "w", "x", "y", "z" >>

ToLowerChar(c) ==
    IF \E i \in 1..26 : UpperCase[i] = c
    THEN LowerCase[CHOOSE i \in 1..26 : UpperCase[i] = c]
    ELSE c

IsLetter(c) == \E i \in 1..26 : LowerCase[i] = ToLowerChar(c)

\* \s of the patterns
IsSpace(c) == c \in {" ", "\n", "\t", "\r", "\f"}

\* what . does not match
IsLineTerminator(c) == c \in {"\n", "\r"}

RECURSIVE JoinChars(_)
JoinChars(s) == IF s = << >> THEN "" ELSE Head(s) \o JoinChars(Tail(s))

RECURSIVE TrimLeft(_)
TrimLeft(s) ==
    IF s # << >> /\ IsSpace(Head(s)) THEN TrimLeft(Tail(s)) ELSE s

RECURSIVE TrimRight(_)
TrimRight(s) ==
    IF s # << >> /\ IsSpace(s[Len(s)])
    THEN TrimRight(SubSeq(s, 1, Len(s) - 1))
    ELSE s

\* String.prototype.trim
Trim(s) == TrimRight(TrimLeft(s))

\* the literal lit occurs in s at position i, letter case ignored or not
LiteralAt(s, i, lit, ignoreCase) ==
    /\ i + Len(lit) - 1 <= Len(s)
    /\ \A k \in 1..Len(lit) :
          IF ignoreCase
          THEN ToLowerChar(s[i + k - 1]) = ToLowerChar(lit[k])
          ELSE s[i + k - 1] = lit[k]

\* String.prototype.includes
Includes(s, lit) == \E i \in 1..Len(s) : LiteralAt(s, i, lit, FALSE)

\* first position at or after i that holds no \s character (Len(s) + 1 if none)
RECURSIVE SkipSpace(_, _)
SkipSpace(s, i) ==
    IF i <= Len(s) /\ IsSpace(s[i]) THEN SkipSpace(s, i + 1) ELSE i

\* last position of the run of non-line-terminators that starts at i
RECURSIVE LineEnd(_, _)
LineEnd(s, i) ==
    IF i + 1 <= Len(s) /\ ~IsLineTerminator(s[i + 1])
    THEN LineEnd(s, i + 1)
    ELSE i

NoMatch == << >>

TagLanguage ==
    << "L", "A", "N", "G", "U", "A", "G", "E", ":" >>

TagCorrected ==
    << "C", "O", "R", "R", "E", "C", "T", "E", "D", ":" >>

\* response.match(/LANGUAGE:\s*([a-z]{2})/i): the captured group, or NoMatch
LangMatchAt(s, i) ==
    LET j == SkipSpace(s, i + Len(TagLanguage))
    IN  /\ LiteralAt(s, i, TagLanguage, TRUE)
        /\ j + 1 <= Len(s)
        /\ IsLetter(s[j])
        /\ IsLetter(s[j + 1])

\* position of the leftmost match at or after i, 0 if there is none
RECURSIVE FirstLangMatch(_, _)
FirstLangMatch(s, i) ==
    IF i > Len(s) THEN 0
    ELSE IF LangMatchAt(s, i) THEN i
    ELSE FirstLangMatch(s, i + 1)

LangMatch(s) ==
    LET i == FirstLangMatch(s, 1)
        j == SkipSpace(s, i + Len(TagLanguage))
    IN  IF i = 0 THEN NoMatch ELSE << s[j], s[j + 1] >>

\* response.match(/CORRECTED:\s*(.+)/i): the captured group, or NoMatch.
\* \s* is greedy and gives characters back when (.+) would otherwise be empty.
CorrectedStart(s, i) ==
    LET first == i + Len(TagCorrected)
        j == SkipSpace(s, first)
    IN  IF j <= Len(s)
        THEN j
        ELSE IF \E k \in first..Len(s) : ~IsLineTerminator(s[k])
             THEN CHOOSE k \in first..Len(s) :
                     /\ ~IsLineTerminator(s[k])
                     /\ \A m \in (k + 1)..Len(s) : IsLineTerminator(s[m])
             ELSE 0

CorrectedMatchAt(s, i) ==
    /\ LiteralAt(s, i, TagCorrected, TRUE)
    /\ CorrectedStart(s, i) # 0

RECURSIVE FirstCorrectedMatch(_, _)
FirstCorrectedMatch(s, i) ==
    IF i > Len(s) THEN 0
    ELSE IF CorrectedMatchAt(s, i) THEN i
    ELSE FirstCorrectedMatch(s, i + 1)

CorrectedMatch(s) ==
    LET i == FirstCorrectedMatch(s, 1)
        j == CorrectedStart(s, i)
    IN  IF i = 0 THEN NoMatch ELSE SubSeq(s, j, LineEnd(s, j))

\* ------------------------------------------------------------------------
\* Configuration (config/data.js) and language tables
\* ------------------------------------------------------------------------

\* activeConfig.systemPrompt: the persona prompt
systemPrompt == "Skylar - Skillora Design Academy Virtual Assistant"

\* activeConfig.voice = voiceConfigs.default
voiceConfig ==
    [ model |-> "bulbul:v2", speaker |-> "anushka", language |-> "en-IN" ]

twilioConfig ==
    [ language |->
          "en-IN, hi-IN, mr-IN, ta-IN, te-IN, ml-IN, kn-IN, bn-IN, gu-IN, pa-IN",
      speechTimeout |-> "auto" ]

SupportedCodes == { "en", "hi", "ta", "te", "ml", "kn", "mr", "bn", "gu", "pa" }

languageMapping == [ code \in SupportedCodes |-> code \o "-IN" ]

\* names every object literal inherits from Object.prototype
ObjectPrototypeKeys ==
    { "constructor", "toString", "valueOf", "hasOwnProperty", "__proto__",
      "isPrototypeOf", "propertyIsEnumerable", "toLocaleString" }

\* obj[key] of an object literal whose own properties are the function table
Lookup(table, key) ==
    IF key \in DOMAIN table THEN table[key]
    ELSE IF key \in ObjectPrototypeKeys THEN InheritedValue
    ELSE Undefined

getSarvamLanguageCode_NoDefault(googleLangCode) ==
    Lookup(languageMapping, googleLangCode)

getSarvamLanguageCode(googleLangCode) ==
    IF Truthy(Lookup(languageMapping, googleLangCode))
    THEN Lookup(languageMapping, googleLangCode)
    ELSE "en-IN"

languageNames ==
    [ code \in SupportedCodes |->
        CASE code = "en" -> "English"
          [] code = "hi" -> "Hindi"
          [] code = "ta" -> "Tamil"
          [] code = "te" -> "Telugu"
          [] code = "ml" -> "Malayalam"
          [] code = "kn" -> "Kannada"
          [] code = "mr" -> "Marathi"
          [] code = "bn" -> "Bengali"
          [] code = "gu" -> "Gujarati"
          [] code = "pa" -> "Punjabi" ]

languageNameOf(detectedLanguage) ==
    IF Truthy(Lookup(languageNames, detectedLanguage))
    THEN Lookup(languageNames, detectedLanguage)
    ELSE "English"

\* ------------------------------------------------------------------------
\* The completion provider as the correction service sees it
\* ------------------------------------------------------------------------

ReplyTagged ==
    << "L", "A", "N", "G", "U", "A", "G", "E", ":", " ", "h", "i", "\n", "C", "O", "R",
       "R", "E", "C", "T", "E", "D", ":", " ", "m", "u", "j", "h", "e", " ", "d", "r",
       "a", "w", "i", "n", "g", " ", "p", "a", "s", "a", "n", "d", " ", "h", "a", "i" >>

\* a reply in the format the service's own prompt asks for (lines 237-240)
ReplyPromptFormat ==
    << "I", "N", "T", "E", "R", "E", "S", "T", "_", "D", "E", "T", "E", "C", "T", "E",
       "D", ":", " ", "D", "r", "a", "w", "i", "n", "g", ".", "\n", "R", "E", "C", "O",
       "M", "M", "E", "N", "D", "E", "D", "_", "C", "O", "U", "R", "S", "E", ":", " ",
       "G", "r", "a", "p", "h", "i", "c", " ", "D", "e", "s", "i", "g", "n", "\n", "R",
       "E", "A", "S", "O", "N", ":", " ", "I", "t", " ", "t", "e", "a", "c", "h", "e",
       "s", " ", "v", "i", "s", "u", "a", "l", " ", "d", "r", "a", "w", "i", "n", "g",
       " ", "s", "k", "i", "l", "l", "s", "." >>

ReplyLanguageOnly ==
    << "l", "a", "n", "g", "u", "a", "g", "e", ":", " ", "F", "R" >>

ReplyCorrectedOnly ==
    << " ", "C", "o", "r", "r", "e", "c", "t", "e", "d", ":", " ", " ", " ", "I", " ",
       "l", "i", "k", "e", " ", "d", "r", "a", "w", "i", "n", "g", ".", " ", "\n" >>

CorrectionReplies ==
    { ReplyTagged, ReplyPromptFormat, ReplyLanguageOnly, ReplyCorrectedOnly }

\* What awaiting openai.chat.completions.create can give the correction
\* service: a rejection (network, quota), a body without choices, a choice
\* whose content is null, or a choice with text.
ProviderFailures == { "rejected", "no_choices", "null_content" }

CorrectionOutcomes ==
    [ kind : ProviderFailures, content : { << >> } ]
        \cup [ kind : { "ok" }, content : CorrectionReplies ]

\* the outcomes the request handlers are run with
HandlerCorrectionOutcomes ==
    [ kind : ProviderFailures, content : { << >> } ]
        \cup [ kind : { "ok" }, content : { ReplyTagged, ReplyPromptFormat } ]

\* a parse that gives up on both tags as soon as one is missing
ParseCorrection_JointDefault(content) ==
    LET response == Trim(content)
        langMatch == LangMatch(response)
        correctedMatch == CorrectedMatch(response)
    IN  IF langMatch # NoMatch /\ correctedMatch # NoMatch
        THEN [ detectedLang |-> JoinChars(<< ToLowerChar(langMatch[1]),
                                            ToLowerChar(langMatch[2]) >>),
               correctedText |-> JoinChars(Trim(correctedMatch)) ]
        ELSE [ detectedLang |-> "en", correctedText |-> Undefined ]

\* lines 269-274: the reply is trimmed and both tags are looked for; each
\* result falls back on its own default
ParseCorrection(content) ==
    LET response == Trim(content)
        langMatch == LangMatch(response)
        correctedMatch == CorrectedMatch(response)
    IN  [ detectedLang |->
              IF langMatch # NoMatch
              THEN JoinChars(<< ToLowerChar(langMatch[1]),
                                ToLowerChar(langMatch[2]) >>)
              ELSE "en",
          correctedText |->
              IF correctedMatch # NoMatch
              THEN JoinChars(Trim(correctedMatch))
              ELSE Undefined ]

\* the parse of each reply the provider may give, computed once
ParsedReplies == [ r \in CorrectionReplies |-> ParseCorrection(r) ]

\* a correction service that lets the provider's failure through
detectLanguageAndCorrect_Rethrow(text, outcome) ==
    IF outcome.kind # "ok"
    THEN [ threw |-> TRUE, language |-> Undefined, correctedText |-> Undefined ]
    ELSE [ threw |-> FALSE,
           language |-> ParsedReplies[outcome.content].detectedLang,
           correctedText |->
               IF ParsedReplies[outcome.content].correctedText # Undefined
               THEN ParsedReplies[outcome.content].correctedText
               ELSE text ]

\* detectLanguageAndCorrect, lines 223-287
detectLanguageAndCorrect(text, outcome) ==
    IF outcome.kind # "ok"
    THEN \* lines 283-286: the catch block
         [ threw |-> FALSE, language |-> "en", correctedText |-> text ]
    ELSE [ threw |-> FALSE,
           language |-> ParsedReplies[outcome.content].detectedLang,
           correctedText |->
               IF ParsedReplies[outcome.content].correctedText # Undefined
               THEN ParsedReplies[outcome.content].correctedText
               ELSE text ]

\* ------------------------------------------------------------------------
\* The environment the server is driven by
\* ------------------------------------------------------------------------

\* Call identifiers the telephony provider sends (non-empty strings)
CallSids == { "CA1", "CA2" }

\* req.body.SpeechResult: missing, empty, or a recognized utterance
SpeechResults == { Undefined, "", "I like drawing" }

\* req.body.CallStatus
TerminalStatuses == { "completed", "failed", "busy", "no-answer" }

CallStatuses == TerminalStatuses \cup { "in-progress", "canceled" }

\* process.env.SARVAM_API_KEY
SarvamKeys == { Undefined, "your_sarvam_api_key_here", "sarvam-key" }

PublicUrl == "https://public.example"

\* completion.choices[0].message.content of the reply completion
GptReplies == { "We suggest Graphic Design. Anything else?" }

CompletionOutcomes ==
    [ kind : { "rejected", "no_choices" }, content : { Undefined } ]
        \cup [ kind : { "ok" }, content : GptReplies ]

\* What awaiting axios.post(sarvamApiUrl, ...) and the file write can give:
\* a rejection (network, timeout, 4xx/5xx), a body without audios, an audios
\* array whose first element is empty, audio whose file cannot be opened for
\* writing, audio written.
SynthesisOutcomes ==
    { "rejected", "no_audios", "empty_audio", "write_failed", "ok" }


\* ------------------------------------------------------------------------
\* State
\* ------------------------------------------------------------------------

VARIABLES
    env,                  \* process.env, fixed at start
    proc,                 \* "running", or the exit code once exited
    conversationHistory,  \* Map: call identifier -> reference to an array
    arrays,               \* the arrays the Map and the handlers refer to
    audioCleanupQueue,    \* Map: file path -> timeout id
    timers,               \* pending setTimeout callbacks: id -> [path, delay]
    files,                \* paths that exist on disk
    unlinkCalls,          \* path -> number of fs.unlinkSync calls made on it
    cleanupErrors,        \* number of errors the janitor caught and logged
    uuid,                 \* number of uuidv4() names drawn so far
    tasks,                \* handler invocations awaiting a provider
    res,                  \* the response the last step sent, NoRes if none
    call                  \* the last call of a function on its own, NoCall if none

vars ==
    << env, proc, conversationHistory, arrays, audioCleanupQueue, timers,
       files, unlinkCalls, cleanupErrors, uuid, tasks, res, call >>

Slots == DOMAIN tasks

janitorVars ==
    << audioCleanupQueue, timers, files, unlinkCalls, cleanupErrors >>

sessionVars == << conversationHistory, arrays >>

\* ------------------------------------------------------------------------
\* Transcript entries, response markup, responses
\* ------------------------------------------------------------------------

NoMetadata ==
    [ originalLanguage |-> Undefined, original |-> Undefined,
      language |-> Undefined ]

\* an entry that holds the persona prompt under the user's role
SystemEntry_AsUser(content) ==
    [ role |-> "user", content |-> content, metadata |-> NoMetadata ]

SystemEntry(content) ==
    [ role |-> "system", content |-> content, metadata |-> NoMetadata ]

\* lines 610-614
UserEntry(correctedMessage, detectedLanguage, userSpeech) ==
    [ role |-> "user", content |-> correctedMessage,
      metadata |-> [ originalLanguage |-> detectedLanguage,
                     original |-> userSpeech, language |-> Undefined ] ]

\* lines 617-621
AssistantEntry(gptResponse, detectedLanguage) ==
    [ role |-> "assistant", content |-> gptResponse,
      metadata |-> [ originalLanguage |-> Undefined, original |-> Undefined,
                     language |-> detectedLanguage ] ]

\* a plain { role: 'user', content } message
UserMessage(content) ==
    [ role |-> "user", content |-> content, metadata |-> NoMetadata ]

Say(text) ==
    [ verb |-> "Say", text |-> text, action |-> "", language |-> "",
      nested |-> << >> ]

Play(url) ==
    [ verb |-> "Play", text |-> url, action |-> "", language |-> "",
      nested |-> << >> ]

Hangup ==
    [ verb |-> "Hangup", text |-> "", action |-> "", language |-> "",
      nested |-> << >> ]

\* twiml.gather({input: 'speech', action: `/handle-speech?callSid=${callSid}`,
\*               language, ...}) with the verbs nested in it
Gather(callSid, language, nested) ==
    [ verb |-> "Gather", text |-> "",
      action |-> "/handle-speech?callSid=" \o callSid,
      language |-> language, nested |-> nested ]

GreetingText ==
    "This is the test call for you, You can speak now the assistant will respond accordingly."

RepromptText == "I did not catch that. Please speak clearly after the tone."

CouldNotHearText == "I could not hear you. Please call back. Goodbye."

TroubleText == "I seem to be having some trouble. Please try speaking again."

GoodbyeText == "Thank you for calling. Goodbye."

NoBody ==
    [ error |-> Undefined, details |-> Undefined,
      detectedLanguage |-> Undefined, response |-> Undefined,
      audioUrl |-> Undefined, success |-> Undefined, text |-> Undefined,
      callSid |-> Undefined ]

NoRes ==
    [ handler |-> "none", callSid |-> Undefined, status |-> 0,
      twiml |-> << >>, body |-> NoBody, synthesis |-> "none",
      deleted |-> FALSE, input |-> Undefined ]

\* res.type('text/xml'); res.send(twiml.toString())
TwimlRes(handler, callSid, twiml, synthesis) ==
    [ handler |-> handler, callSid |-> callSid, status |-> 200,
      twiml |-> twiml, body |-> NoBody, synthesis |-> synthesis,
      deleted |-> FALSE, input |-> Undefined ]

\* res.status(status).json(body), for the request whose message is input
JsonRes(handler, status, body, input, synthesis) ==
    [ NoRes EXCEPT !.handler = handler, !.status = status, !.body = body,
                   !.input = input, !.synthesis = synthesis ]

\* ------------------------------------------------------------------------
\* Handler invocations in flight
\* ------------------------------------------------------------------------

IdleTask ==
    [ kind |-> "idle", pc |-> "idle", callSid |-> Undefined,
      input |-> Undefined, clientHistory |-> << >>,
      detectedLanguage |-> Undefined, correctedMessage |-> Undefined,
      history |-> 0, messages |-> << >>, gptResponse |-> Undefined,
      mimeType |-> Undefined, file |-> Undefined, nextCalls |-> 0 ]

\* a function called on its own: its argument, what the provider it awaits
\* gave, and what came back
NoCall ==
    [ fn |-> "none", arg |-> Undefined, outcome |-> Undefined,
      returned |-> Undefined ]

FreeSlots == { i \in Slots : tasks[i].kind = "idle" }

\* the slot a new invocation takes
NextSlot == CHOOSE i \in FreeSlots : \A j \in FreeSlots : i <= j

Range(f) == { f[x] : x \in DOMAIN f }

\* arrays still referred to by the Map or by a handler's local variable
LiveRefs(store, ts) ==
    (Range(store) \cup { ts[i].history : i \in DOMAIN ts }) \ { 0 }

\* arrays no reference leads to are garbage
Collect(arr, store, ts) ==
    [ r \in (DOMAIN arr \cap LiveRefs(store, ts)) |-> arr[r] ]

FreshRef(arr) ==
    CHOOSE r \in 1..(Cardinality(DOMAIN arr) + 1) :
        /\ r \notin DOMAIN arr
        /\ \A q \in 1..(r - 1) : q \in DOMAIN arr

MapSet(map, key, value) ==
    [ k \in DOMAIN map \cup { key } |-> IF k = key THEN value ELSE map[k] ]

MapDelete(map, key) == [ k \in DOMAIN map \ { key } |-> map[k] ]

EmptyMap == [ k \in { } |-> 0 ]

\* ------------------------------------------------------------------------
\* Files and the janitor
\* ------------------------------------------------------------------------

AudioFileName(k) == "uuid" \o ToString(k) \o ".wav"

AudioFilePath(k) == "public/audio/" \o AudioFileName(k)

UploadFilePath(k, ext) == "temp/upload_uuid" \o ToString(k) \o "." \o ext

SarvamConfigured ==
    Truthy(env.SARVAM_API_KEY) /\ env.SARVAM_API_KEY # "your_sarvam_api_key_here"

CountOf(counts, path) == IF path \in DOMAIN counts THEN counts[path] ELSE 0

FreshTimeoutId ==
    CHOOSE t \in 1..(Cardinality(DOMAIN timers \cup Range(audioCleanupQueue)) + 1) :
        t \notin DOMAIN timers \cup Range(audioCleanupQueue)

\* scheduleAudioCleanup(filePath, delayMs), lines 411-425
scheduleAudioCleanup(filePath, delayMs) ==
    /\ timers' = MapSet(timers, FreshTimeoutId,
                        [ path |-> filePath, delay |-> delayMs ])
    /\ audioCleanupQueue' = MapSet(audioCleanupQueue, filePath, FreshTimeoutId)

\* a callback that deletes the file and keeps the registration
CleanupTimer_KeepsEntry(t) ==
    /\ proc = "running"
    /\ t \in DOMAIN timers
    /\ LET filePath == timers[t].path
       IN  /\ timers' = MapDelete(timers, t)
           /\ IF filePath \in files
              THEN /\ files' = files \ { filePath }
                   /\ unlinkCalls' =
                          MapSet(unlinkCalls, filePath,
                                 CountOf(unlinkCalls, filePath) + 1)
              ELSE UNCHANGED << files, unlinkCalls >>
           /\ UNCHANGED << audioCleanupQueue, cleanupErrors >>
    /\ res' = NoRes
    /\ UNCHANGED << env, call, proc, sessionVars, uuid, tasks >>

\* the callback of the timer, lines 412-422: fires once
CleanupTimer(t) ==
    /\ proc = "running"
    /\ t \in DOMAIN timers
    /\ LET filePath == timers[t].path
       IN  /\ timers' = MapDelete(timers, t)
           /\ IF filePath \in files
              THEN /\ files' = files \ { filePath }
                   /\ unlinkCalls' =
                          MapSet(unlinkCalls, filePath,
                                 CountOf(unlinkCalls, filePath) + 1)
              ELSE UNCHANGED << files, unlinkCalls >>
           /\ audioCleanupQueue' = MapDelete(audioCleanupQueue, filePath)
           /\ UNCHANGED cleanupErrors
    /\ res' = NoRes
    /\ UNCHANGED << env, call, proc, sessionVars, uuid, tasks >>

\* a flush that neither tests existsSync nor clears the Map
cleanupAllAudioFiles_Naive ==
    /\ timers' = [ t \in DOMAIN timers \ Range(audioCleanupQueue) |-> timers[t] ]
    /\ files' = files \ DOMAIN audioCleanupQueue
    /\ unlinkCalls' =
           [ p \in DOMAIN unlinkCalls \cup DOMAIN audioCleanupQueue |->
               CountOf(unlinkCalls, p)
                   + (IF p \in DOMAIN audioCleanupQueue THEN 1 ELSE 0) ]
    /\ cleanupErrors' =
           cleanupErrors + Cardinality(DOMAIN audioCleanupQueue \ files)
    /\ audioCleanupQueue' = audioCleanupQueue

\* a flush that leaves the timers armed
cleanupAllAudioFiles_NoClearTimeout ==
    /\ timers' = timers
    /\ files' = files \ DOMAIN audioCleanupQueue
    /\ unlinkCalls' =
           [ p \in DOMAIN unlinkCalls \cup (DOMAIN audioCleanupQueue \cap files) |->
               CountOf(unlinkCalls, p)
                   + (IF p \in DOMAIN audioCleanupQueue \cap files THEN 1 ELSE 0) ]
    /\ cleanupErrors' = cleanupErrors
    /\ audioCleanupQueue' = EmptyMap

\* cleanupAllAudioFiles, lines 430-443
cleanupAllAudioFiles ==
    /\ timers' = [ t \in DOMAIN timers \ Range(audioCleanupQueue) |-> timers[t] ]
    /\ files' = files \ DOMAIN audioCleanupQueue
    /\ unlinkCalls' =
           [ p \in DOMAIN unlinkCalls \cup (DOMAIN audioCleanupQueue \cap files) |->
               CountOf(unlinkCalls, p)
                   + (IF p \in DOMAIN audioCleanupQueue \cap files THEN 1 ELSE 0) ]
    /\ cleanupErrors' = cleanupErrors
    /\ audioCleanupQueue' = EmptyMap

\* ------------------------------------------------------------------------
\* Phone channel
\* ------------------------------------------------------------------------

\* the per-turn system prompt of the phone channel, lines 581-591
PhoneSystemPrompt(languageName) ==
    systemPrompt
        \o "\n\nCRITICAL LANGUAGE INSTRUCTION:\nThe user is speaking in "
        \o languageName \o ". You MUST respond ONLY in " \o languageName
        \o ".\n- Write your ENTIRE response in " \o languageName \o " language"
        \o "\n- For Indian languages, you can use Roman script (transliteration) or native script"
        \o "\n- Do NOT use English at all unless the user is speaking English"
        \o "\n- Do NOT mix languages"
        \o "\n- Keep responses concise (under 30 words) for phone calls"
        \o "\n\nThis is MANDATORY. Respond in " \o languageName \o " ONLY."

\* a message array that spreads the whole stored transcript
messagesWithLanguage_WholeHistory(history, languageName, correctedMessage) ==
    << SystemEntry(PhoneSystemPrompt(languageName)) >>
        \o history
        \o << UserMessage(correctedMessage) >>

\* messagesWithLanguage, lines 578-595, history being the stored transcript
messagesWithLanguage(history, languageName, correctedMessage) ==
    << SystemEntry(PhoneSystemPrompt(languageName)) >>
        \o Tail(history)
        \o << UserMessage(correctedMessage) >>

\* app.post('/twilio-voice'), lines 509-536
TwilioVoice(callSid) ==
    /\ proc = "running"
    /\ LET ref == FreshRef(arrays)
       IN  /\ conversationHistory' = MapSet(conversationHistory, callSid, ref)
           /\ arrays' = Collect(MapSet(arrays, ref, << SystemEntry(systemPrompt) >>),
                                conversationHistory', tasks)
    /\ res' = TwimlRes("twilio-voice", callSid,
                       << Gather(callSid, twilioConfig.language,
                                 << Say(GreetingText) >>),
                          Hangup >>,
                       "none")
    /\ UNCHANGED << env, call, proc, janitorVars, uuid, tasks >>

\* a handler that empties the Map on a terminal status
CallStatus_ClearsStore(callSid, callStatus) ==
    /\ proc = "running"
    /\ conversationHistory' =
           IF callStatus \in TerminalStatuses
                  /\ callSid \in DOMAIN conversationHistory
           THEN EmptyMap
           ELSE conversationHistory
    /\ arrays' = Collect(arrays, conversationHistory', tasks)
    /\ res' = [ NoRes EXCEPT !.handler = "call-status", !.callSid = callSid,
                             !.status = 200,
                             !.deleted = callStatus \in TerminalStatuses
                                 /\ callSid \in DOMAIN conversationHistory ]
    /\ UNCHANGED << env, call, proc, janitorVars, uuid, tasks >>

\* a handler whose status test leaves out no-answer
CallStatus_ForgetsNoAnswer(callSid, callStatus) ==
    /\ proc = "running"
    /\ conversationHistory' =
           IF callStatus \in { "completed", "failed", "busy" }
                  /\ callSid \in DOMAIN conversationHistory
           THEN MapDelete(conversationHistory, callSid)
           ELSE conversationHistory
    /\ arrays' = Collect(arrays, conversationHistory', tasks)
    /\ res' = [ NoRes EXCEPT !.handler = "call-status", !.callSid = callSid,
                             !.status = 200,
                             !.deleted = callStatus \in { "completed", "failed", "busy" }
                                 /\ callSid \in DOMAIN conversationHistory ]
    /\ UNCHANGED << env, call, proc, janitorVars, uuid, tasks >>

\* app.post('/call-status'), lines 761-775
CallStatus(callSid, callStatus) ==
    /\ proc = "running"
    /\ conversationHistory' =
           IF callStatus \in TerminalStatuses
                  /\ callSid \in DOMAIN conversationHistory
           THEN MapDelete(conversationHistory, callSid)
           ELSE conversationHistory
    /\ arrays' = Collect(arrays, conversationHistory', tasks)
    /\ res' = [ NoRes EXCEPT !.handler = "call-status", !.callSid = callSid,
                             !.status = 200,
                             !.deleted = callStatus \in TerminalStatuses
                                 /\ callSid \in DOMAIN conversationHistory ]
    /\ UNCHANGED << env, call, proc, janitorVars, uuid, tasks >>

\* turns the stored transcripts hold, and turns in progress
RECURSIVE SumOver(_, _)
SumOver(f, S) ==
    IF S = { } THEN 0
    ELSE LET x == CHOOSE y \in S : TRUE
         IN  f[x] + SumOver(f, S \ { x })

TurnsStored ==
    SumOver([ c \in DOMAIN conversationHistory |->
                (Len(arrays[conversationHistory[c]]) - 1) \div 2 ],
            DOMAIN conversationHistory)

TurnsInProgress == Cardinality({ i \in Slots : tasks[i].kind = "speech" })

\* a guard that does not look the identifier up
SpeechAccepted_IgnoresStore(callSid, userSpeech) ==
    /\ Truthy(userSpeech)
    /\ Truthy(callSid)

\* the guard of line 547
SpeechAccepted(callSid, userSpeech) ==
    /\ Truthy(userSpeech)
    /\ Truthy(callSid)
    /\ callSid \in DOMAIN conversationHistory

\* app.post('/handle-speech'), lines 539-553: the request arrives and, if
\* accepted, the correction service is called
HandleSpeech(callSid, userSpeech) ==
    /\ proc = "running"
    /\ SpeechAccepted(callSid, userSpeech)
    /\ FreeSlots # { }
    /\ TurnsStored + TurnsInProgress < MaxTurns
    /\ tasks' = [ tasks EXCEPT ![NextSlot] =
                    [ IdleTask EXCEPT !.kind = "speech",
                                      !.pc = "await_correction",
                                      !.callSid = callSid,
                                      !.input = userSpeech ] ]
    /\ res' = NoRes
    /\ UNCHANGED << env, call, proc, sessionVars, janitorVars, uuid >>

\* lines 657-677: no speech detected or invalid call
HandleSpeechRejected(callSid, userSpeech) ==
    /\ proc = "running"
    /\ ~SpeechAccepted(callSid, userSpeech)
    /\ res' = TwimlRes("handle-speech", callSid,
                       << Gather(callSid, twilioConfig.language,
                                 << Say(RepromptText) >>),
                          Say(CouldNotHearText),
                          Hangup >>,
                       "none")
    /\ UNCHANGED << env, call, proc, sessionVars, janitorVars, uuid, tasks >>

\* a catch block that gives up on the call
SpeechErrorRes_HangsUp(t) ==
    TwimlRes("handle-speech", t.callSid,
             << Say(GoodbyeText), Hangup >>,
             "none")

\* lines 640-656 and 676-677: the catch block of the conversation loop
SpeechErrorRes(t) ==
    TwimlRes("handle-speech", t.callSid,
             << Gather(t.callSid, twilioConfig.language, << Say(TroubleText) >>),
                Say(GoodbyeText),
                Hangup >>,
             "none")

\* the handler's invocation in slot i ends with response r
Respond(i, r) ==
    /\ tasks' = [ tasks EXCEPT ![i] = IdleTask ]
    /\ res' = r

\* lines 553-604: the correction service returns; the per-turn message array
\* is built from the stored transcript and the completion is requested
SpeechCorrected(i, outcome) ==
    /\ proc = "running"
    /\ tasks[i].kind = "speech"
    /\ tasks[i].pc = "await_correction"
    /\ LET t == tasks[i]
           correction == detectLanguageAndCorrect(t.input, outcome)
       IN  IF correction.threw \/ t.callSid \notin DOMAIN conversationHistory
           THEN \* history is undefined: history.slice throws
                Respond(i, SpeechErrorRes(t))
           ELSE /\ tasks' = [ tasks EXCEPT ![i] =
                      [ t EXCEPT
                          !.pc = "await_completion",
                          !.detectedLanguage = correction.language,
                          !.correctedMessage = correction.correctedText,
                          !.history = conversationHistory[t.callSid],
                          !.messages =
                              messagesWithLanguage(
                                  arrays[conversationHistory[t.callSid]],
                                  languageNameOf(correction.language),
                                  correction.correctedText) ] ]
                /\ res' = NoRes
    /\ arrays' = Collect(arrays, conversationHistory, tasks')
    /\ UNCHANGED << env, call, proc, conversationHistory, janitorVars, uuid >>

\* a handler that stores the reply without the utterance it answers
PushTurn_AssistantOnly(transcript, t, gptResponse) ==
    Append(transcript, AssistantEntry(gptResponse, t.detectedLanguage))

\* a handler that forgets the assistant's entry
PushTurn_UserOnly(transcript, t, gptResponse) ==
    Append(transcript,
           UserEntry(t.correctedMessage, t.detectedLanguage, t.input))

\* history.push(user entry); history.push(assistant entry), lines 610-621
PushTurn(transcript, t, gptResponse) ==
    transcript
        \o << UserEntry(t.correctedMessage, t.detectedLanguage, t.input),
              AssistantEntry(gptResponse, t.detectedLanguage) >>

\* lines 628-637: Twilio's own text-to-speech
NativeSpeechTwiml(callSid, text) ==
    << Gather(callSid, twilioConfig.language, << Say(text) >>) >>

\* a handler that puts its transcript back into the Map after the pushes
SpeechCompleted_Restores(i, outcome) ==
    /\ proc = "running"
    /\ tasks[i].kind = "speech"
    /\ tasks[i].pc = "await_completion"
    /\ LET t == tasks[i]
       IN  IF outcome.kind # "ok"
           THEN /\ Respond(i, SpeechErrorRes(t))
                /\ arrays' = Collect(arrays, conversationHistory, tasks')
                /\ UNCHANGED conversationHistory
           ELSE LET pushed ==
                        [ arrays EXCEPT ![t.history] =
                            PushTurn(arrays[t.history], t, outcome.content) ]
                IN  /\ IF SarvamConfigured
                       THEN /\ tasks' = [ tasks EXCEPT ![i] =
                                   [ t EXCEPT
                                       !.pc = "await_synthesis",
                                       !.gptResponse = outcome.content,
                                       !.input = Undefined,
                                       !.correctedMessage = Undefined,
                                       !.history = 0,
                                       !.messages = << >> ] ]
                            /\ res' = NoRes
                       ELSE Respond(i,
                                TwimlRes("handle-speech", t.callSid,
                                         NativeSpeechTwiml(t.callSid,
                                                           outcome.content),
                                         "none"))
                    /\ conversationHistory' =
                           MapSet(conversationHistory, t.callSid, t.history)
                    /\ arrays' = Collect(pushed, conversationHistory', tasks')
    /\ UNCHANGED << env, call, proc, janitorVars, uuid >>

\* lines 599-638: the completion returns; both turns are appended; the reply
\* is spoken natively or the synthesis provider is called
SpeechCompleted(i, outcome) ==
    /\ proc = "running"
    /\ tasks[i].kind = "speech"
    /\ tasks[i].pc = "await_completion"
    /\ LET t == tasks[i]
       IN  IF outcome.kind # "ok"
           THEN /\ Respond(i, SpeechErrorRes(t))
                /\ arrays' = Collect(arrays, conversationHistory, tasks')
           ELSE LET pushed ==
                        [ arrays EXCEPT ![t.history] =
                            PushTurn(arrays[t.history], t, outcome.content) ]
                IN  /\ IF SarvamConfigured
                       THEN /\ tasks' = [ tasks EXCEPT ![i] =
                                   [ t EXCEPT
                                       !.pc = "await_synthesis",
                                       !.gptResponse = outcome.content,
                                       \* not read again
                                       !.input = Undefined,
                                       !.correctedMessage = Undefined,
                                       !.history = 0,
                                       !.messages = << >> ] ]
                            /\ res' = NoRes
                       ELSE Respond(i,
                                TwimlRes("handle-speech", t.callSid,
                                         NativeSpeechTwiml(t.callSid,
                                                           outcome.content),
                                         "none"))
                    /\ arrays' = Collect(pushed, conversationHistory, tasks')
    /\ UNCHANGED << env, call, proc, conversationHistory, janitorVars, uuid >>

\* a catch block that apologizes instead of speaking the reply
SynthesisFallbackTwiml_Apology(callSid, text) ==
    << Gather(callSid, twilioConfig.language, << Say(TroubleText) >>) >>

\* handleSarvamAIResponse, lines 746-757: the catch block
SynthesisFallbackTwiml(callSid, text) ==
    << Gather(callSid, twilioConfig.language, << Say(text) >>) >>

\* handleSarvamAIResponse, lines 726-741
PlayTwiml(callSid, audioFileName) ==
    << Gather(callSid, voiceConfig.language,
              << Play(PublicUrl \o "/audio/" \o audioFileName) >>) >>

\* handleSarvamAIResponse after axios.post, lines 710-757, and the send of
\* lines 676-677
SpeechSynthesized(i, outcome) ==
    /\ proc = "running"
    /\ tasks[i].kind = "speech"
    /\ tasks[i].pc = "await_synthesis"
    /\ LET t == tasks[i]
       IN  IF outcome = "ok"
           THEN /\ uuid < MaxUuid
                /\ uuid' = uuid + 1
                /\ files' = files \cup { AudioFilePath(uuid') }
                /\ scheduleAudioCleanup(AudioFilePath(uuid'), 30000)
                /\ Respond(i, TwimlRes("handle-speech", t.callSid,
                                       PlayTwiml(t.callSid, AudioFileName(uuid')),
                                       outcome))
                /\ UNCHANGED << unlinkCalls, cleanupErrors >>
           ELSE /\ Respond(i, TwimlRes("handle-speech", t.callSid,
                                       SynthesisFallbackTwiml(t.callSid,
                                                              t.gptResponse),
                                       outcome))
                /\ UNCHANGED << janitorVars, uuid >>
    /\ arrays' = Collect(arrays, conversationHistory, tasks')
    /\ UNCHANGED << env, call, proc, conversationHistory >>

\* ------------------------------------------------------------------------
\* Web channel
\* ------------------------------------------------------------------------

GreetingSentinel == "__GREETING__"

ChatGreetingText ==
    "Hello! I am your assistant at the Skillora Design Academy. How can I help you today?"

ChatMessages == { GreetingSentinel, "I like drawing" }

\* req.body.conversationHistory: absent, empty, or one earlier exchange
ClientHistories ==
    { Undefined, << >>,
      << UserMessage("hello"), [ role |-> "assistant", content |-> "Hi!",
                                 metadata |-> NoMetadata ] >> }

\* a test that never recognizes the sentinel
IsGreeting_Never(message) == FALSE

\* line 789
IsGreeting(message) == message = GreetingSentinel

\* a handler whose synthesis failure reaches the outer catch block
ChatSynthesisRes_Surfaces(t, outcome, audioUrl) ==
    IF outcome \notin { "none", "ok" }
    THEN JsonRes("chat", 500,
                 [ NoBody EXCEPT !.error = "Failed to process message",
                                 !.details = outcome ],
                 t.input, outcome)
    ELSE JsonRes("chat", 200,
                 [ NoBody EXCEPT !.detectedLanguage = t.detectedLanguage,
                                 !.response = t.gptResponse,
                                 !.audioUrl = audioUrl ],
                 t.input, outcome)

\* lines 889-893: res.json({detectedLanguage, response, audioUrl})
ChatSynthesisRes(t, outcome, audioUrl) ==
    JsonRes("chat", 200,
            [ NoBody EXCEPT !.detectedLanguage = t.detectedLanguage,
                            !.response = t.gptResponse,
                            !.audioUrl = audioUrl ],
            t.input, outcome)

\* lines 895-901: the outer catch block
ChatErrorRes(t, details) ==
    JsonRes("chat", 500,
            [ NoBody EXCEPT !.error = "Failed to process message",
                            !.details = details ],
            t.input, "none")

\* the per-request system prompt of the web chat, lines 813-822
ChatSystemPrompt(languageName) ==
    systemPrompt
        \o "\n\nCRITICAL LANGUAGE INSTRUCTION:\nThe user is speaking in "
        \o languageName \o ". You MUST respond ONLY in " \o languageName
        \o ".\n- Write your ENTIRE response in " \o languageName
        \o " language using the appropriate script (Devanagari for Hindi/Marathi, Tamil script for Tamil, etc.)"
        \o "\n- Do NOT use English at all"
        \o "\n- Do NOT mix languages"
        \o "\n- If you don't know how to say something in " \o languageName
        \o ", still try your best to use " \o languageName
        \o "\n\nThis is MANDATORY. Respond in " \o languageName \o " ONLY."

\* a message array that also spreads what the store holds
ChatMessageArray_WithStore(clientHistory, languageName, correctedMessage) ==
    << SystemEntry(ChatSystemPrompt(languageName)) >>
        \o clientHistory
        \o (IF DOMAIN conversationHistory = { }
            THEN << >>
            ELSE Tail(arrays[conversationHistory[
                     CHOOSE c \in DOMAIN conversationHistory : TRUE]]))
        \o << UserMessage(correctedMessage) >>

\* messages, lines 812-825
ChatMessageArray(clientHistory, languageName, correctedMessage) ==
    << SystemEntry(ChatSystemPrompt(languageName)) >>
        \o clientHistory
        \o << UserMessage(correctedMessage) >>

\* lines 838-893 once the reply text is known: the synthesis provider is
\* called if configured, else the response is sent with a null audio URL
ChatReplyKnown(i, t) ==
    IF SarvamConfigured
    THEN /\ tasks' = [ tasks EXCEPT ![i] = [ t EXCEPT !.pc = "await_synthesis" ] ]
         /\ res' = NoRes
    ELSE /\ tasks' = [ tasks EXCEPT ![i] = IdleTask ]
         /\ res' = ChatSynthesisRes(t, "none", Null)

\* app.post('/chat'), lines 778-794: the request arrives
Chat(message, clientHistory) ==
    /\ proc = "running"
    /\ FreeSlots # { }
    /\ LET t == [ IdleTask EXCEPT !.kind = "chat", !.input = message,
                                  !.clientHistory = clientHistory ]
       IN  IF IsGreeting(message)
           THEN ChatReplyKnown(NextSlot,
                               [ t EXCEPT !.gptResponse = ChatGreetingText,
                                          !.detectedLanguage = "en",
                                          \* not read
                                          !.clientHistory = << >> ])
           ELSE /\ tasks' = [ tasks EXCEPT ![NextSlot] =
                                [ t EXCEPT !.pc = "await_correction" ] ]
                /\ res' = NoRes
    /\ UNCHANGED << env, call, proc, sessionVars, janitorVars, uuid >>

\* lines 794-831: the correction service returns; the message array is
\* built, spreading the client's history, and the completion is requested
ChatCorrected(i, outcome) ==
    /\ proc = "running"
    /\ tasks[i].kind = "chat"
    /\ tasks[i].pc = "await_correction"
    /\ LET t == tasks[i]
           correction == detectLanguageAndCorrect(t.input, outcome)
       IN  IF correction.threw \/ t.clientHistory = Undefined
           THEN \* ...clientHistory of undefined throws a TypeError
                Respond(i, ChatErrorRes(t, "clientHistory is not iterable"))
           ELSE /\ tasks' = [ tasks EXCEPT ![i] =
                      [ t EXCEPT !.pc = "await_completion",
                                 !.detectedLanguage = correction.language,
                                 !.messages =
                                     ChatMessageArray(
                                         t.clientHistory,
                                         languageNameOf(correction.language),
                                         correction.correctedText),
                                 \* not read again
                                 !.clientHistory = << >> ] ]
                /\ res' = NoRes
    /\ UNCHANGED << env, call, proc, sessionVars, janitorVars, uuid >>

\* lines 826-836: the completion returns
ChatCompleted(i, outcome) ==
    /\ proc = "running"
    /\ tasks[i].kind = "chat"
    /\ tasks[i].pc = "await_completion"
    /\ IF outcome.kind # "ok"
       THEN Respond(i, ChatErrorRes(tasks[i], outcome.kind))
       ELSE ChatReplyKnown(i, [ tasks[i] EXCEPT !.gptResponse = outcome.content,
                                                \* not read again
                                                !.messages = << >> ])
    /\ UNCHANGED << env, call, proc, sessionVars, janitorVars, uuid >>

\* lines 862-893: the synthesis provider returns; its failures are caught
\* by the inner catch block of lines 884-886
ChatSynthesized(i, outcome) ==
    /\ proc = "running"
    /\ tasks[i].kind = "chat"
    /\ tasks[i].pc = "await_synthesis"
    /\ IF outcome = "ok"
       THEN /\ uuid < MaxUuid
            /\ uuid' = uuid + 1
            /\ files' = files \cup { AudioFilePath(uuid') }
            /\ scheduleAudioCleanup(AudioFilePath(uuid'), 60000)
            /\ Respond(i, ChatSynthesisRes(tasks[i], outcome,
                                           "/audio/" \o AudioFileName(uuid')))
            /\ UNCHANGED << unlinkCalls, cleanupErrors >>
       ELSE /\ Respond(i, ChatSynthesisRes(tasks[i], outcome, Null))
            /\ UNCHANGED << janitorVars, uuid >>
    /\ UNCHANGED << env, call, proc, sessionVars >>

\* ------------------------------------------------------------------------
\* Outbound calls
\* ------------------------------------------------------------------------

\* req.body.phoneNumber: absent, empty, not a number, a mobile number
PhoneNumbers == { Undefined, "", "call me", "+919876543210" }

\* a validator that lets every value through
isMobilePhone_AcceptsAll(phoneNumber) == TRUE

\* body('phoneNumber').isMobilePhone('any'), line 480, on PhoneNumbers
isMobilePhone(phoneNumber) == phoneNumber = "+919876543210"

\* what awaiting client.calls.create can give: a rejection, or a call with
\* its identifier
CallOutcomes == { "rejected" } \cup CallSids

\* app.post('/make-call'), lines 479-495: the request arrives; the telephony
\* provider is called only for a number the validator lets through
MakeCall(phoneNumber) ==
    /\ proc = "running"
    /\ FreeSlots # { }
    /\ IF ~isMobilePhone(phoneNumber)
       THEN /\ res' = JsonRes("make-call", 400,
                              [ NoBody EXCEPT
                                  !.error = "Invalid phone number format",
                                  !.details = "Invalid phone number" ],
                              phoneNumber, "none")
            /\ UNCHANGED tasks
       ELSE /\ tasks' = [ tasks EXCEPT ![NextSlot] =
                            [ IdleTask EXCEPT !.kind = "call",
                                              !.pc = "await_call",
                                              !.input = phoneNumber ] ]
            /\ res' = NoRes
    /\ UNCHANGED << env, call, proc, sessionVars, janitorVars, uuid >>

\* lines 497-504: the telephony provider returns
CallCreated(i, outcome) ==
    /\ proc = "running"
    /\ tasks[i].kind = "call"
    /\ tasks[i].pc = "await_call"
    /\ Respond(i,
          IF outcome = "rejected"
          THEN JsonRes("make-call", 500,
                       [ NoBody EXCEPT !.error = "Failed to initiate call",
                                       !.details = outcome ],
                       tasks[i].input, "none")
          ELSE JsonRes("make-call", 200,
                       [ NoBody EXCEPT !.success = TRUE, !.callSid = outcome ],
                       tasks[i].input, "none"))
    /\ UNCHANGED << env, call, proc, sessionVars, janitorVars, uuid >>

\* ------------------------------------------------------------------------
\* Uploads and transcription
\* ------------------------------------------------------------------------

\* an allowlist that lets video through
allowedMimes_WithVideo ==
    { "audio/mpeg", "audio/mp3", "audio/wav", "audio/webm", "audio/ogg",
      "audio/x-m4a", "video/mp4" }

\* line 117
allowedMimes ==
    { "audio/mpeg", "audio/mp3", "audio/wav", "audio/webm", "audio/ogg",
      "audio/x-m4a" }

\* the forms a request to /transcribe is sent with: no multipart body, a
\* multipart body that breaks off, one without a file part, or one whose
\* file part has the given MIME type
UploadForms ==
    { "not_multipart", "malformed", "no_file",
      "audio/wav", "audio/x-m4a", "video/mp4", "text/plain" }

\* fileInfo.mimeType.split('/')[1].replace('x-', ''), line 138
UploadExt(mimeType) ==
    CASE mimeType = "audio/mpeg" -> "mpeg"
      [] mimeType = "audio/mp3" -> "mp3"
      [] mimeType = "audio/wav" -> "wav"
      [] mimeType = "audio/webm" -> "webm"
      [] mimeType = "audio/ogg" -> "ogg"
      [] mimeType = "audio/x-m4a" -> "m4a"
      [] mimeType = "video/mp4" -> "mp4"
      [] mimeType = "text/plain" -> "plain"

InvalidFileTypeMessage ==
    << "I", "n", "v", "a", "l", "i", "d", " ", "f", "i", "l", "e", " ", "t", "y", "p",
       "e", ".", " ", "O", "n", "l", "y", " ", "a", "u", "d", "i", "o", " ", "f", "i",
       "l", "e", "s", " ", "a", "l", "l", "o", "w", "e", "d", "." >>

\* the message of the error busboy emits for a body that breaks off
UnexpectedEndOfFormMessage ==
    << "U", "n", "e", "x", "p", "e", "c", "t", "e", "d", " ", "e", "n", "d", " ", "o",
       "f", " ", "f", "o", "r", "m" >>

FileWord ==
    << "f", "i", "l", "e" >>

\* a handler that knows no file upload errors
ErrorMiddleware_NoFileBranch(message) ==
    JsonRes("error-middleware", 500,
            [ NoBody EXCEPT !.error = "Internal server error",
                            !.details =
                                IF env.NODE_ENV = "development"
                                THEN JoinChars(message)
                                ELSE "An error occurred" ],
            Undefined, "none")

\* the error handling middleware, lines 1020-1034, message being
\* error.message
ErrorMiddleware(message) ==
    IF message # << >> /\ Includes(message, FileWord)
    THEN JsonRes("error-middleware", 400,
                 [ NoBody EXCEPT !.error = "File upload error",
                                 !.details = JoinChars(message) ],
                 Undefined, "none")
    ELSE JsonRes("error-middleware", 500,
                 [ NoBody EXCEPT !.error = "Internal server error",
                                 !.details =
                                     IF env.NODE_ENV = "development"
                                     THEN JoinChars(message)
                                     ELSE "An error occurred" ],
                 Undefined, "none")

\* lines 907-909
NoAudioFileRes ==
    JsonRes("transcribe", 400,
            [ NoBody EXCEPT !.error = "No audio file provided" ],
            Undefined, "none")

\* uploadMiddleware, lines 99-162, up to its first call of next, and what
\* that call runs: the error middleware, or the handler of /transcribe up to
\* its first await (lines 905-921 and 345-378)
Transcribe(form) ==
    /\ proc = "running"
    /\ FreeSlots # { }
    /\ CASE form \in { "not_multipart", "no_file" } ->
              /\ res' = NoAudioFileRes
              /\ UNCHANGED << tasks, files, uuid >>
         [] form = "malformed" ->
              /\ res' = ErrorMiddleware(UnexpectedEndOfFormMessage)
              /\ UNCHANGED << tasks, files, uuid >>
         [] form \notin { "not_multipart", "no_file", "malformed" }
                /\ form \notin allowedMimes ->
              \* lines 118-121; the 'finish' event is still to come
              /\ res' = [ ErrorMiddleware(InvalidFileTypeMessage)
                              EXCEPT !.input = form ]
              /\ tasks' = [ tasks EXCEPT ![NextSlot] =
                              [ IdleTask EXCEPT !.kind = "transcribe",
                                                !.pc = "await_finish",
                                                !.mimeType = form,
                                                !.nextCalls = 1 ] ]
              /\ UNCHANGED << files, uuid >>
         [] OTHER ->
              \* lines 136-152, then the handler calls the provider
              /\ uuid < MaxUuid
              /\ uuid' = uuid + 1
              /\ files' = files \cup { UploadFilePath(uuid', UploadExt(form)) }
              /\ tasks' = [ tasks EXCEPT ![NextSlot] =
                              [ IdleTask EXCEPT
                                  !.kind = "transcribe",
                                  !.pc = "await_transcription",
                                  !.mimeType = form,
                                  !.file = UploadFilePath(uuid', UploadExt(form)),
                                  !.nextCalls = 1 ] ]
              /\ res' = NoRes
    /\ UNCHANGED << env, call, proc, sessionVars, audioCleanupQueue, timers,
                    unlinkCalls, cleanupErrors >>

\* bb.on('finish') after a rejected file part, lines 136-152: fileData is
\* null, no file is written and next() is called again (nextCalls counts the
\* calls made before this one). The error middleware has sent the response,
\* so nothing that runs after this call can answer the request again
UploadFinished(i) ==
    /\ proc = "running"
    /\ tasks[i].kind = "transcribe"
    /\ tasks[i].pc = "await_finish"
    /\ Respond(i, NoRes)
    /\ UNCHANGED << env, call, proc, sessionVars, janitorVars, uuid >>

TranscriptionOutcomes == { "rejected", "ok" }

\* a handler whose catch block leaves the upload where it is
Transcribed_KeepsFileOnError(i, outcome) ==
    /\ proc = "running"
    /\ tasks[i].kind = "transcribe"
    /\ tasks[i].pc = "await_transcription"
    /\ LET t == tasks[i]
       IN  /\ files' = IF outcome = "ok" THEN files \ { t.file } ELSE files
           /\ unlinkCalls' =
                  IF t.file \in files /\ outcome = "ok"
                  THEN MapSet(unlinkCalls, t.file, CountOf(unlinkCalls, t.file) + 1)
                  ELSE unlinkCalls
           /\ Respond(i,
                 IF outcome = "ok"
                 THEN JsonRes("transcribe", 200,
                              [ NoBody EXCEPT !.success = TRUE,
                                              !.text = "I like drawing" ],
                              Undefined, "none")
                 ELSE JsonRes("transcribe", 500,
                              [ NoBody EXCEPT !.error = "Transcription failed",
                                              !.details = "Whisper transcription failed" ],
                              Undefined, "none"))
    /\ UNCHANGED << env, call, proc, sessionVars, audioCleanupQueue, timers,
                    cleanupErrors, uuid >>

\* lines 378-399 and 921-947: the provider returns; the upload is unlinked
\* on either path
Transcribed(i, outcome) ==
    /\ proc = "running"
    /\ tasks[i].kind = "transcribe"
    /\ tasks[i].pc = "await_transcription"
    /\ LET t == tasks[i]
       IN  /\ files' = files \ { t.file }
           /\ unlinkCalls' =
                  IF t.file \in files
                  THEN MapSet(unlinkCalls, t.file, CountOf(unlinkCalls, t.file) + 1)
                  ELSE unlinkCalls
           /\ Respond(i,
                 IF outcome = "ok"
                 THEN JsonRes("transcribe", 200,
                              [ NoBody EXCEPT !.success = TRUE,
                                              !.text = "I like drawing" ],
                              Undefined, "none")
                 ELSE JsonRes("transcribe", 500,
                              [ NoBody EXCEPT !.error = "Transcription failed",
                                              !.details = "Whisper transcription failed" ],
                              Undefined, "none"))
    /\ UNCHANGED << env, call, proc, sessionVars, audioCleanupQueue, timers,
                    cleanupErrors, uuid >>

\* ------------------------------------------------------------------------
\* The audio test endpoint
\* ------------------------------------------------------------------------

\* `test_${Date.now()}.wav` under public/audio, lines 990-991
TestFileName(now) == "test_" \o ToString(now) \o ".wav"

TestFilePath(now) == "public/audio/" \o TestFileName(now)

\* Date.now() at line 990: the clock never runs backwards, and the test
\* files are deleted by nobody, so it reads the value of the newest test
\* file or a later one
TestClock ==
    LET written == { k \in 1..MaxTestAudio : TestFilePath(k) \in files }
    IN  { k \in 1..MaxTestAudio :
            /\ \A w \in written : w <= k
            /\ k <= Cardinality(written) + 1 }

\* app.get('/test-audio'), lines 951-977: the request arrives and the
\* synthesis provider is called, whatever the key
TestAudio ==
    /\ proc = "running"
    /\ FreeSlots # { }
    /\ tasks' = [ tasks EXCEPT ![NextSlot] =
                    [ IdleTask EXCEPT !.kind = "test",
                                      !.pc = "await_synthesis" ] ]
    /\ res' = NoRes
    /\ UNCHANGED << env, call, proc, sessionVars, janitorVars, uuid >>

\* lines 979-1017: the synthesis provider returns; the file is written and
\* the response sent, and no deletion is scheduled.  The provider gives
\* audio only to a configured key.
TestAudioSynthesized(i, outcome) ==
    /\ proc = "running"
    /\ tasks[i].kind = "test"
    /\ tasks[i].pc = "await_synthesis"
    /\ outcome \notin { "rejected" } => SarvamConfigured
    /\ CASE outcome = "ok" ->
              \E now \in TestClock :
                  /\ files' = files \cup { TestFilePath(now) }
                  /\ Respond(i, JsonRes("test-audio", 200,
                                   [ NoBody EXCEPT
                                       !.success = TRUE,
                                       !.audioUrl = "/audio/" \o TestFileName(now),
                                       !.text = "Hello! This is a test of the audio system." ],
                                   Undefined, outcome))
         [] outcome \in { "no_audios", "empty_audio" } ->
              /\ Respond(i, JsonRes("test-audio", 200,
                               [ NoBody EXCEPT !.success = FALSE ],
                               Undefined, outcome))
              /\ UNCHANGED files
         [] OTHER ->
              /\ Respond(i, JsonRes("test-audio", 500,
                               [ NoBody EXCEPT !.success = FALSE,
                                               !.error = outcome,
                                               !.details = Null ],
                               Undefined, outcome))
              /\ UNCHANGED files
    /\ UNCHANGED << env, call, proc, sessionVars, audioCleanupQueue, timers,
                    unlinkCalls, cleanupErrors, uuid >>

\* ------------------------------------------------------------------------
\* Process handlers
\* ------------------------------------------------------------------------

ShutdownEvents == { "SIGINT", "SIGTERM", "uncaughtException" }

\* a handler that exits at once
Shutdown_NoFlush(event) ==
    /\ proc = "running"
    /\ proc' = IF event = "uncaughtException" THEN "exit1" ELSE "exit0"
    /\ call' = [ NoCall EXCEPT !.fn = event, !.arg = DOMAIN audioCleanupQueue ]
    /\ conversationHistory' = EmptyMap
    /\ arrays' = EmptyMap
    /\ tasks' = [ i \in Slots |-> IdleTask ]
    /\ res' = NoRes
    /\ UNCHANGED << env, janitorVars, uuid >>

\* process.on('SIGINT' | 'SIGTERM' | 'uncaughtException'), lines 1063-1080:
\* the flush, then process.exit, with which the process's memory is gone;
\* the handler's run is recorded with the paths that were pending
Shutdown(event) ==
    /\ proc = "running"
    /\ cleanupAllAudioFiles
    /\ proc' = IF event = "uncaughtException" THEN "exit1" ELSE "exit0"
    /\ call' = [ NoCall EXCEPT !.fn = event, !.arg = DOMAIN audioCleanupQueue ]
    /\ conversationHistory' = EmptyMap
    /\ arrays' = EmptyMap
    /\ tasks' = [ i \in Slots |-> IdleTask ]
    /\ res' = NoRes
    /\ UNCHANGED << env, uuid >>

\* a handler that treats the rejection as the uncaught exception is treated
UnhandledRejection_Exits ==
    /\ proc = "running"
    /\ cleanupAllAudioFiles
    /\ proc' = "exit1"
    /\ call' = [ NoCall EXCEPT !.fn = "unhandledRejection",
                               !.arg = DOMAIN audioCleanupQueue ]
    /\ conversationHistory' = EmptyMap
    /\ arrays' = EmptyMap
    /\ tasks' = [ i \in Slots |-> IdleTask ]
    /\ res' = NoRes
    /\ UNCHANGED << env, uuid >>

\* process.on('unhandledRejection'), lines 1082-1084: the rejection is
\* logged; the handler's run is recorded with the paths that were pending
UnhandledRejection ==
    /\ proc = "running"
    /\ call' = [ NoCall EXCEPT !.fn = "unhandledRejection",
                               !.arg = DOMAIN audioCleanupQueue ]
    /\ res' = NoRes
    /\ UNCHANGED << env, proc, sessionVars, janitorVars, uuid, tasks >>

\* ------------------------------------------------------------------------
\* The server
\* ------------------------------------------------------------------------

InitWith(slots, keys, modes) ==
    /\ env \in [ SARVAM_API_KEY : keys, NODE_ENV : modes ]
    /\ proc = "running"
    /\ conversationHistory = EmptyMap
    /\ arrays = EmptyMap
    /\ audioCleanupQueue = EmptyMap
    /\ timers = EmptyMap
    /\ files = { }
    /\ unlinkCalls = EmptyMap
    /\ cleanupErrors = 0
    /\ uuid = 0
    /\ tasks = [ i \in slots |-> IdleTask ]
    /\ res = NoRes
    /\ call = NoCall

\* the phone channel, driven with the call identifiers sids
PhoneNext(sids) ==
    \/ \E c \in sids : TwilioVoice(c)
    \/ \E c \in sids, s \in CallStatuses : CallStatus(c, s)
    \/ \E c \in sids, u \in SpeechResults : HandleSpeech(c, u)
    \/ \E c \in sids, u \in SpeechResults : HandleSpeechRejected(c, u)
    \/ \E i \in Slots, o \in HandlerCorrectionOutcomes : SpeechCorrected(i, o)
    \/ \E i \in Slots, o \in CompletionOutcomes : SpeechCompleted(i, o)
    \/ \E i \in Slots, o \in SynthesisOutcomes : SpeechSynthesized(i, o)
    \/ \E t \in DOMAIN timers : CleanupTimer(t)
    \/ \E e \in ShutdownEvents : Shutdown(e)

\* one call, whose requests may overlap
Init == InitWith(1..MaxInFlight, SarvamKeys, { Undefined })

Next == PhoneNext({ "CA1" })

Spec == Init /\ [][Next]_vars

\* two calls, whose requests are handled one at a time
TwoCallsInit == InitWith({ 1 }, SarvamKeys, { Undefined })

TwoCallsNext == PhoneNext(CallSids)

TwoCallsSpec == TwoCallsInit /\ [][TwoCallsNext]_vars

\* the web channel and the uploads
WebInit == InitWith(1..MaxInFlight, SarvamKeys, { Undefined })

WebNext ==
    \/ \E m \in ChatMessages, h \in ClientHistories : Chat(m, h)
    \/ \E i \in Slots, o \in HandlerCorrectionOutcomes : ChatCorrected(i, o)
    \/ \E i \in Slots, o \in CompletionOutcomes : ChatCompleted(i, o)
    \/ \E i \in Slots, o \in SynthesisOutcomes : ChatSynthesized(i, o)
    \/ \E n \in PhoneNumbers : MakeCall(n)
    \/ \E i \in Slots, o \in CallOutcomes : CallCreated(i, o)
    \/ TestAudio
    \/ \E i \in Slots, o \in SynthesisOutcomes : TestAudioSynthesized(i, o)
    \/ \E f \in UploadForms : Transcribe(f)
    \/ \E i \in Slots : UploadFinished(i)
    \/ \E i \in Slots, o \in TranscriptionOutcomes : Transcribed(i, o)
    \/ \E t \in DOMAIN timers : CleanupTimer(t)
    \/ \E e \in ShutdownEvents : Shutdown(e)

WebSpec == WebInit /\ [][WebNext]_vars

\* the phone channel and the web chat served together, with no synthesis
\* key, so that every reply is sent once the completion returns
ServerNext ==
    \/ TwilioVoice("CA1")
    \/ \E s \in CallStatuses : CallStatus("CA1", s)
    \/ \E u \in SpeechResults : HandleSpeech("CA1", u)
    \/ \E u \in SpeechResults : HandleSpeechRejected("CA1", u)
    \/ \E i \in Slots, o \in HandlerCorrectionOutcomes : SpeechCorrected(i, o)
    \/ \E i \in Slots, o \in CompletionOutcomes : SpeechCompleted(i, o)
    \/ \E m \in ChatMessages, h \in ClientHistories : Chat(m, h)
    \/ \E i \in Slots, o \in HandlerCorrectionOutcomes : ChatCorrected(i, o)
    \/ \E i \in Slots, o \in CompletionOutcomes : ChatCompleted(i, o)

ServerSpec ==
    InitWith(1..MaxInFlight, { Undefined }, { Undefined }) /\ [][ServerNext]_vars

\* one call whose requests are handled one at a time, synthesis configured,
\* and the process handlers
ProcessNext ==
    \/ PhoneNext({ "CA1" })
    \/ UnhandledRejection

ProcessSpec ==
    InitWith({ 1 }, { "sarvam-key" }, { Undefined }) /\ [][ProcessNext]_vars

\* ------------------------------------------------------------------------
\* The helper functions, each called on its own
\* ------------------------------------------------------------------------

CodeLetters ==
    { "a", "b", "e", "g", "h", "i", "k", "l", "m", "n", "p", "r", "t", "u" }

\* the codes /LANGUAGE:\s*([a-z]{2})/i can capture, over CodeLetters
TwoLetterCodes == { a \o b : a \in CodeLetters, b \in CodeLetters }

LanguageCodeInputs ==
    TwoLetterCodes
        \cup { Undefined, Null, "", "EN", "eng", "en-IN", "constructor",
               "toString", "__proto__" }

Utterances == { "", "I like drawing", "mujhe drawing pasand hai" }

\* getSarvamLanguageCode(code) evaluated
CallGetSarvamLanguageCode(code) ==
    /\ call' = [ fn |-> "getSarvamLanguageCode", arg |-> code,
                 outcome |-> Undefined,
                 returned |-> getSarvamLanguageCode(code) ]
    /\ UNCHANGED << env, proc, sessionVars, janitorVars, uuid, tasks, res >>

\* await detectLanguageAndCorrect(text), the provider giving outcome
CallDetectLanguageAndCorrect(text, outcome) ==
    /\ call' = [ fn |-> "detectLanguageAndCorrect", arg |-> text,
                 outcome |-> outcome,
                 returned |-> detectLanguageAndCorrect(text, outcome) ]
    /\ UNCHANGED << env, proc, sessionVars, janitorVars, uuid, tasks, res >>

\* process.env.NODE_ENV
NodeEnvs == { Undefined, "production", "development" }

\* error.message of the errors handed to the error handling middleware: the
\* two of uploadMiddleware, an empty one, one that names a file without
\* being about an upload, one that says File with a capital
ErrorMessages ==
    { InvalidFileTypeMessage,
      UnexpectedEndOfFormMessage,
      << >>,
      << "E", "N", "O", "E", "N", "T", ":", " ", "n", "o", " ", "s", "u", "c", "h", " ",
         "f", "i", "l", "e", " ", "o", "r", " ", "d", "i", "r", "e", "c", "t", "o", "r",
         "y" >>,
      << "F", "i", "l", "e", " ", "t", "o", "o", " ", "l", "a", "r", "g", "e" >> }

\* the error handling middleware called with an error of this message
CallErrorMiddleware(message) ==
    /\ call' = [ fn |-> "errorMiddleware", arg |-> message,
                 outcome |-> Undefined,
                 returned |-> ErrorMiddleware(message) ]
    /\ UNCHANGED << env, proc, sessionVars, janitorVars, uuid, tasks, res >>

\* what one turn does with the code the correction service returned: the
\* name put into the response-language instruction (lines 572, 810) and the
\* tag sent as target_language_code (lines 686, 847)
CallTurnLanguage(detectedLanguage) ==
    /\ call' = [ fn |-> "turnLanguage", arg |-> detectedLanguage,
                 outcome |-> Undefined,
                 returned |->
                     [ languageName |-> languageNameOf(detectedLanguage),
                       target_language_code |->
                           getSarvamLanguageCode(detectedLanguage) ] ]
    /\ UNCHANGED << env, proc, sessionVars, janitorVars, uuid, tasks, res >>

FunctionsInit == InitWith({ 1 }, { Undefined }, NodeEnvs)

FunctionsNext ==
    \/ \E code \in LanguageCodeInputs : CallGetSarvamLanguageCode(code)
    \/ \E text \in Utterances, o \in CorrectionOutcomes :
           CallDetectLanguageAndCorrect(text, o)
    \/ \E message \in ErrorMessages : CallErrorMiddleware(message)
    \/ \E code \in TwoLetterCodes : CallTurnLanguage(code)

FunctionsSpec == FunctionsInit /\ [][FunctionsNext]_vars

\* ------------------------------------------------------------------------
\* The janitor on its own: artifacts are written and registered as the
\* handlers do it, timers fire, and the flush runs without the exit that
\* follows it in the signal handlers
\* ------------------------------------------------------------------------

CleanupDelays == { 30000, 60000 }

\* lines 738-744 and 876-882: the file is written under a fresh name and
\* its deletion is scheduled
ArtifactWritten(delayMs) ==
    /\ proc = "running"
    /\ uuid < MaxArtifacts
    /\ uuid' = uuid + 1
    /\ files' = files \cup { AudioFilePath(uuid') }
    /\ scheduleAudioCleanup(AudioFilePath(uuid'), delayMs)
    /\ res' = NoRes
    /\ UNCHANGED << env, call, proc, sessionVars, unlinkCalls, cleanupErrors,
                    tasks >>

\* cleanupAllAudioFiles() called and returning; the call is recorded with
\* the paths that were pending when it was made
Flush ==
    /\ proc = "running"
    /\ cleanupAllAudioFiles
    /\ call' = [ NoCall EXCEPT !.fn = "cleanupAllAudioFiles",
                               !.arg = DOMAIN audioCleanupQueue ]
    /\ res' = NoRes
    /\ UNCHANGED << env, proc, sessionVars, uuid, tasks >>

JanitorInit == InitWith({ 1 }, { Undefined }, { Undefined })

JanitorNext ==
    \/ \E d \in CleanupDelays : ArtifactWritten(d)
    \/ \E t \in DOMAIN timers : CleanupTimer(t)
    \/ Flush

JanitorSpec == JanitorInit /\ [][JanitorNext]_vars

\* ------------------------------------------------------------------------
\* Properties
\* ------------------------------------------------------------------------

\* C1: after a call-status callback with a terminal status the identifier is
\* absent from the session store; such a callback for an identifier that is
\* not in the store (a second one, or one for a call that never had a
\* session) changes nothing, and the callback is always answered with 200.
C1_Step ==
    \A c \in CallSids, s \in TerminalStatuses :
        CallStatus(c, s) =>
            /\ c \notin DOMAIN conversationHistory'
            /\ res'.status = 200
            /\ c \notin DOMAIN conversationHistory =>
                   UNCHANGED << env, call, proc, conversationHistory, arrays,
                                janitorVars, uuid, tasks >>

C1_TerminalStatusRemovesSession == [][C1_Step]_vars

C1_Witness ==
    /\ res.handler = "call-status"
    /\ res.deleted
    /\ res.callSid \notin DOMAIN conversationHistory

\* C3: when the completion of a speech-result request succeeds, the
\* transcript the handler read from the store grows by exactly two entries,
\* the user entry followed by the assistant entry, its earlier entries and
\* every other transcript staying as they were.
C3_Step ==
    \A i \in Slots, o \in CompletionOutcomes :
        (o.kind = "ok" /\ SpeechCompleted(i, o)) =>
            LET t == tasks[i]
            IN  /\ \A r \in DOMAIN arrays' :
                      arrays'[r] =
                          IF r = t.history
                          THEN arrays[r]
                                   \o << UserEntry(t.correctedMessage,
                                                   t.detectedLanguage, t.input),
                                         AssistantEntry(o.content,
                                                        t.detectedLanguage) >>
                          ELSE arrays[r]
                /\ (t.callSid \in DOMAIN conversationHistory
                        /\ conversationHistory[t.callSid] = t.history)
                       => t.history \in DOMAIN arrays'
                /\ conversationHistory' = conversationHistory

Gathers(twiml) == { k \in 1..Len(twiml) : twiml[k].verb = "Gather" }

C4_EveryResponseGathers ==
    res.handler = "handle-speech" =>
        /\ Cardinality(Gathers(res.twiml)) = 1
        /\ \A k \in Gathers(res.twiml) :
              /\ res.twiml[k].action = "/handle-speech?callSid=" \o res.callSid
              /\ Len(res.twiml[k].nested) = 1
              /\ res.twiml[k].nested[1].verb \in { "Say", "Play" }
        /\ res.twiml[1].verb = "Gather"

C4_Witness ==
    /\ res.handler = "handle-speech"
    /\ \E k \in Gathers(res.twiml) : res.twiml[k].nested = << Say(TroubleText) >>

\* C6: when the synthesis of a phone reply fails (rejected request, missing
\* or empty audio payload, failed write), the response speaks the same reply
\* text natively inside a speech-collection instruction, no file is written
\* and no deletion is scheduled.
C6_Step ==
    \A i \in Slots, o \in SynthesisOutcomes \ { "ok" } :
        SpeechSynthesized(i, o) =>
            /\ res'.twiml =
                   << Gather(tasks[i].callSid, twilioConfig.language,
                             << Say(tasks[i].gptResponse) >>) >>
            /\ tasks[i].gptResponse \in GptReplies
            /\ UNCHANGED << files, timers, audioCleanupQueue, uuid >>

C6_SynthesisFailureFallsBack == [][C6_Step]_vars

C6_Witness ==
    /\ res.handler = "handle-speech"
    /\ res.synthesis = "empty_audio"
    /\ \E k \in Gathers(res.twiml) : res.twiml[k].nested[1].verb = "Say"

\* C2: when the completion call of the correction service fails (rejected
\* request, body without choices, choice without content),
\* detectLanguageAndCorrect returns the text it was given, unchanged, with
\* the language code en, and does not throw.
C2_CorrectionFailsSoft ==
    (call.fn = "detectLanguageAndCorrect"
        /\ call.outcome.kind \in { "rejected", "no_choices", "null_content" })
        => /\ ~call.returned.threw
           /\ call.returned.language = "en"
           /\ call.returned.correctedText = call.arg

C2_Witness ==
    /\ call.fn = "detectLanguageAndCorrect"
    /\ call.outcome.kind = "rejected"
    /\ call.arg = "mujhe drawing pasand hai"
    /\ call.returned.correctedText = "mujhe drawing pasand hai"

\* C5 as stated: the response to a greeting request carries the canned
\* greeting and a null audio URL.
C5_GreetingHasNullAudioUrl ==
    (res.handler = "chat" /\ res.input = "__GREETING__")
        => /\ res.body.response = ChatGreetingText
           /\ res.body.audioUrl = Null

\* C5, amended: the response to a greeting request is a 200 that carries the
\* canned greeting and the language en, whatever history the client sent; its
\* audio URL is null when synthesis is not configured or fails, and is the
\* URL of a synthesized file, scheduled for deletion, when synthesis succeeds.
C5_GreetingIsCannedAndSynthesized ==
    (res.handler = "chat" /\ res.input = "__GREETING__")
        => /\ res.status = 200
           /\ res.body.response = ChatGreetingText
           /\ res.body.detectedLanguage = "en"
           /\ res.body.error = Undefined
           /\ IF SarvamConfigured /\ res.synthesis = "ok"
              THEN /\ res.body.audioUrl = "/audio/" \o AudioFileName(uuid)
                   /\ AudioFilePath(uuid) \in files
                   /\ AudioFilePath(uuid) \in DOMAIN audioCleanupQueue
              ELSE res.body.audioUrl = Null

C5_Witness ==
    /\ res.handler = "chat"
    /\ res.input = "__GREETING__"
    /\ res.body.response = ChatGreetingText
    /\ res.body.audioUrl = Null
    /\ res.synthesis = "empty_audio"

\* C7: on the web channel a failed synthesis (rejected request, missing or
\* empty payload, failed write) ends in a 200 response that carries the reply
\* text and a null audio URL and no error field; no file is written.
C7_Step ==
    \A i \in Slots, o \in SynthesisOutcomes \ { "ok" } :
        ChatSynthesized(i, o) =>
            /\ res'.handler = "chat"
            /\ res'.status = 200
            /\ res'.body.response = tasks[i].gptResponse
            /\ res'.body.audioUrl = Null
            /\ res'.body.error = Undefined
            /\ res'.body.details = Undefined
            /\ UNCHANGED << files, timers, audioCleanupQueue >>

C7_WebSynthesisFailureIsSilent == [][C7_Step]_vars

C7_Witness ==
    /\ res.handler = "chat"
    /\ res.synthesis = "rejected"
    /\ res.input = "I like drawing"
    /\ res.body.response \in GptReplies

\* C8: whatever the order of timers firing and flushes, a registered file is
\* unlinked at most once, stays deleted once unlinked, the janitor catches
\* no error, and a flush that finds nothing registered changes nothing.
C8_State ==
    /\ cleanupErrors = 0
    /\ \A p \in DOMAIN unlinkCalls :
          /\ unlinkCalls[p] <= 1
          /\ unlinkCalls[p] = 1 => p \notin files

C8_Step ==
    /\ (Flush /\ audioCleanupQueue = EmptyMap) => UNCHANGED janitorVars
    /\ \A p \in DOMAIN unlinkCalls : p \in DOMAIN unlinkCalls'

C8_DeletionAtMostOnce == [] C8_State /\ [][C8_Step]_vars

C8_Witness ==
    /\ audioCleanupQueue = EmptyMap
    /\ timers = EmptyMap
    /\ uuid = 2
    /\ files = { }
    /\ \A k \in 1..2 : CountOf(unlinkCalls, AudioFilePath(k)) = 1

C10_Allowlist ==
    { "audio/mpeg", "audio/mp3", "audio/wav", "audio/webm", "audio/ogg",
      "audio/x-m4a" }

C10_State ==
    \A i \in Slots :
        (tasks[i].kind = "transcribe" /\ tasks[i].mimeType \notin C10_Allowlist)
            => /\ tasks[i].pc = "await_finish"
               /\ tasks[i].file = Undefined

C10_Step ==
    /\ \A f \in { "video/mp4", "text/plain" } :
          Transcribe(f) =>
              /\ res'.status \in 400..499
              /\ res'.input = f
              /\ files' = files
              /\ \E i \in Slots : /\ tasks[i].kind = "idle"
                                  /\ tasks'[i].pc = "await_finish"
                                  /\ tasks'[i].mimeType = f
    /\ \A i \in Slots :
          UploadFinished(i) =>
              /\ files' = files
              /\ tasks'[i].kind = "idle"
              /\ res'.status = 0

C10_BadMimeRejected == [] C10_State /\ [][C10_Step]_vars

C10_Witness ==
    /\ res.handler = "error-middleware"
    /\ res.status = 400
    /\ res.input = "video/mp4"
    /\ \E i \in Slots : tasks[i].pc = "await_finish"

\* C11: an outbound-call request whose phone number is not valid and a
\* transcription request without a file are each answered with a 4xx and an
\* error body, and start no provider call: no invocation is left awaiting
\* the telephony or the speech-to-text provider, and no file is written.
C11_State ==
    \A i \in Slots :
        /\ tasks[i].kind = "call" => tasks[i].input = "+919876543210"
        /\ (tasks[i].kind = "transcribe" /\ tasks[i].pc = "await_transcription")
               => tasks[i].file \in files

C11_Step ==
    /\ \A n \in { Undefined, "", "call me" } :
          MakeCall(n) =>
              /\ res'.handler = "make-call"
              /\ res'.status \in 400..499
              /\ res'.body.error = "Invalid phone number format"
              /\ res'.body.details # Undefined
              /\ UNCHANGED << tasks, files >>
    /\ \A f \in { "not_multipart", "no_file" } :
          Transcribe(f) =>
              /\ res'.handler = "transcribe"
              /\ res'.status \in 400..499
              /\ res'.body.error = "No audio file provided"
              /\ UNCHANGED << tasks, files >>

C11_MalformedInputRejected == [] C11_State /\ [][C11_Step]_vars

C11_Witness ==
    /\ res.handler = "make-call"
    /\ res.status = 400
    /\ res.input = "call me"

\* C12: every stored transcript is one system entry followed by user and
\* assistant entries in strict alternation, so no two neighbours have the
\* same role; this holds while speech-result requests of the call overlap.
C12_TranscriptAlternates ==
    \A c \in DOMAIN conversationHistory :
        LET transcript == arrays[conversationHistory[c]]
        IN  /\ Len(transcript) >= 1
            /\ transcript[1].role = "system"
            /\ \A k \in 2..Len(transcript) :
                  transcript[k].role = IF k % 2 = 0 THEN "user" ELSE "assistant"
            /\ \A k \in 1..(Len(transcript) - 1) :
                  transcript[k].role # transcript[k + 1].role

C12_Witness ==
    \E c \in DOMAIN conversationHistory :
        /\ Len(arrays[conversationHistory[c]]) = 3
        /\ \E i \in Slots : /\ tasks[i].kind = "speech"
                            /\ tasks[i].pc = "await_completion"
                            /\ tasks[i].callSid = c
                            /\ tasks[i].history = conversationHistory[c]

\* C13: after the call-start webhook for identifier c the store maps c to a
\* transcript of exactly one entry, the system entry holding the persona
\* prompt, and the response greets inside a speech-collection instruction
\* whose callback carries c.
C13_Step ==
    \A c \in CallSids :
        TwilioVoice(c) =>
            /\ c \in DOMAIN conversationHistory'
            /\ arrays'[conversationHistory'[c]] =
                   << [ role |-> "system", content |-> systemPrompt,
                        metadata |-> NoMetadata ] >>
            /\ res'.handler = "twilio-voice"
            /\ res'.status = 200
            /\ res'.twiml[1].verb = "Gather"
            /\ res'.twiml[1].action = "/handle-speech?callSid=" \o c
            /\ res'.twiml[1].nested = << Say(GreetingText) >>

C13_CallStartCreatesSession == [][C13_Step]_vars

C13_Witness ==
    /\ res.handler = "twilio-voice"
    /\ res.callSid \in DOMAIN conversationHistory
    /\ Len(arrays[conversationHistory[res.callSid]]) = 1
    /\ \E i \in Slots : /\ tasks[i].kind = "speech"
                        /\ tasks[i].callSid = res.callSid

\* C14: a speech-result callback whose identifier is not in the store or
\* whose utterance is empty starts no provider call, writes no file, leaves
\* the store, the transcripts and the pending invocations as they were, and
\* is answered with the re-prompt.
C14_Step ==
    \A c \in CallSids, u \in SpeechResults :
        LET refused == u \in { Undefined, "" }
                           \/ c \notin DOMAIN conversationHistory
        IN  /\ refused => ~HandleSpeech(c, u)
            /\ HandleSpeechRejected(c, u) =>
                  /\ refused
                  /\ UNCHANGED << conversationHistory, arrays, tasks,
                                  janitorVars, uuid >>
                  /\ res'.handler = "handle-speech"
                  /\ res'.twiml =
                         << Gather(c, twilioConfig.language,
                                   << Say(RepromptText) >>),
                            Say(CouldNotHearText),
                            Hangup >>

C14_RefusedSpeechChangesNothing == [][C14_Step]_vars

C14_Witness ==
    /\ res.handler = "handle-speech"
    /\ res.callSid \notin DOMAIN conversationHistory
    /\ res.twiml[1].nested = << Say(RepromptText) >>
    /\ unlinkCalls # EmptyMap

\* C15: no generated audio file exists without a registered pending
\* deletion: every file under public/audio, whether written for the phone
\* channel, for the web chat or by the test endpoint, is a key of the
\* pending map and has a timer that will delete it.
C15_EveryAudioFileIsPending ==
    \A f \in { AudioFilePath(k) : k \in 1..MaxUuid }
                 \cup { TestFilePath(k) : k \in 1..MaxTestAudio } :
        f \in files =>
            /\ f \in DOMAIN audioCleanupQueue
            /\ audioCleanupQueue[f] \in DOMAIN timers
            /\ timers[audioCleanupQueue[f]].path = f

\* C16: when the flush returns the pending map is empty, no file that was
\* registered before the flush exists, and no timer that was armed before
\* the flush remains to fire.
C16_Step ==
    Flush =>
        /\ audioCleanupQueue' = EmptyMap
        /\ DOMAIN audioCleanupQueue \cap files' = { }
        /\ DOMAIN timers \cap DOMAIN timers' = { }

C17_State ==
    proc # "running" =>
        /\ call.fn \in ShutdownEvents
        /\ proc = (IF call.fn \in { "SIGINT", "SIGTERM" } THEN "exit0" ELSE "exit1")
        /\ audioCleanupQueue = EmptyMap
        /\ timers = EmptyMap
        /\ call.arg \cap files = { }
        /\ \A k \in 1..MaxUuid : AudioFilePath(k) \notin files

C17_Step ==
    \A event \in ShutdownEvents :
        Shutdown(event) =>
            /\ DOMAIN audioCleanupQueue \cap files' = { }
            /\ files \ files' = DOMAIN audioCleanupQueue
            /\ proc' = (IF event = "uncaughtException" THEN "exit1" ELSE "exit0")

C18_Step ==
    LET chatStep ==
            \/ res'.handler = "chat"
            \/ \E i \in Slots : /\ "chat" \in { tasks[i].kind, tasks'[i].kind }
                                /\ tasks[i].pc # tasks'[i].pc
    IN  chatStep =>
            /\ UNCHANGED sessionVars
            /\ \A i \in Slots :
                  ( /\ tasks[i].kind = "chat"
                    /\ tasks[i].pc = "await_correction"
                    /\ tasks'[i].pc = "await_completion" ) =>
                      \E o \in HandlerCorrectionOutcomes :
                          LET sent == tasks'[i].messages
                              correction ==
                                  detectLanguageAndCorrect(tasks[i].input, o)
                          IN  /\ Len(sent) = Len(tasks[i].clientHistory) + 2
                              /\ sent[1] =
                                     [ role |-> "system",
                                       content |-> ChatSystemPrompt(
                                           languageNameOf(correction.language)),
                                       metadata |-> NoMetadata ]
                              /\ SubSeq(sent, 2, Len(sent) - 1)
                                     = tasks[i].clientHistory
                              /\ sent[Len(sent)] =
                                     [ role |-> "user",
                                       content |-> correction.correctedText,
                                       metadata |-> NoMetadata ]

C18_ChatIgnoresStore == [][C18_Step]_vars

C18_Witness ==
    /\ "CA1" \in DOMAIN conversationHistory
    /\ Len(arrays[conversationHistory["CA1"]]) = 3
    /\ \E i, j \in Slots :
          /\ tasks[i].kind = "chat"
          /\ tasks[i].pc = "await_completion"
          /\ Len(tasks[i].messages) = 4
          /\ tasks[j].kind = "speech"

\* C20: in a phone turn the message array sent to the completion provider
\* is a synthetic system entry (the persona prompt with the instruction for
\* the detected language), then the stored transcript without its stored
\* system entry, then a new user entry holding the corrected text.  The
\* synthetic entry is never stored and the stored system entry never sent.
C20_State ==
    \A r \in DOMAIN arrays :
        \A k \in 1..Len(arrays[r]) :
            arrays[r][k].role = "system" =>
                /\ k = 1
                /\ arrays[r][k].content = systemPrompt

C20_Step ==
    \A i \in Slots :
        ( /\ tasks[i].kind = "speech"
          /\ tasks[i].pc = "await_correction"
          /\ tasks'[i].pc = "await_completion" ) =>
            \E o \in HandlerCorrectionOutcomes :
                LET stored == arrays[conversationHistory[tasks[i].callSid]]
                    sent == tasks'[i].messages
                    correction == detectLanguageAndCorrect(tasks[i].input, o)
                IN  /\ Len(sent) = Len(stored) + 1
                    /\ sent[1] =
                           [ role |-> "system",
                             content |-> PhoneSystemPrompt(
                                 languageNameOf(correction.language)),
                             metadata |-> NoMetadata ]
                    /\ sent[1] # stored[1]
                    /\ \A k \in 2..Len(stored) :
                           /\ sent[k] = stored[k]
                           /\ sent[k].role # "system"
                    /\ sent[Len(sent)] =
                           [ role |-> "user",
                             content |-> correction.correctedText,
                             metadata |-> NoMetadata ]

C20_TurnContext == [] C20_State /\ [][C20_Step]_vars

C20_Witness ==
    \E i \in Slots :
        /\ tasks[i].kind = "speech"
        /\ tasks[i].pc = "await_completion"
        /\ Len(tasks[i].messages) = 4
        /\ tasks[i].messages[2].role = "user"
        /\ tasks[i].messages[3].role = "assistant"
        /\ tasks[i].detectedLanguage = "hi"

\* C19 as stated: every error handed to the error handling middleware is
\* answered with a 5xx, and the body holds the error's message only if
\* NODE_ENV is development.
C19_Generic5xxInEveryCase ==
    call.fn = "errorMiddleware" =>
        /\ call.returned.status \in 500..599
        /\ (call.arg # << >> /\ call.returned.body.details = JoinChars(call.arg))
               => env.NODE_ENV = "development"

\* C19, amended: an error whose message does not contain "file" is answered
\* with 500 "Internal server error", the details being the message if
\* NODE_ENV is development and "An error occurred" otherwise; an error whose
\* message contains "file" is answered with 400 "File upload error" and its
\* message as details, whatever NODE_ENV is.
C19_ErrorHandlerResponses ==
    call.fn = "errorMiddleware" =>
        LET message == call.arg
            sent == call.returned
            namesFile == \E k \in 1..(Len(message) - 3) :
                             SubSeq(message, k, k + 3) = << "f", "i", "l", "e" >>
        IN  /\ sent.handler = "error-middleware"
            /\ IF namesFile
               THEN /\ sent.status = 400
                    /\ sent.body.error = "File upload error"
                    /\ sent.body.details = JoinChars(message)
               ELSE /\ sent.status = 500
                    /\ sent.body.error = "Internal server error"
                    /\ sent.body.details =
                           IF env.NODE_ENV = "development"
                           THEN JoinChars(message)
                           ELSE "An error occurred"

C19_Witness ==
    /\ call.fn = "errorMiddleware"
    /\ call.arg = InvalidFileTypeMessage
    /\ env.NODE_ENV = "production"
    /\ call.returned.status = 400
    /\ call.returned.body.details = "Invalid file type. Only audio files allowed."

\* C21: turns are immutable and append-only: for every identifier that is
\* in the store before and after a step of a request (call start, speech
\* result, call status, chat), the transcript stored before the step is a
\* prefix of the transcript stored after it.
C21_Step ==
    \A c \in DOMAIN conversationHistory \cap DOMAIN conversationHistory' :
        LET before == arrays[conversationHistory[c]]
            after == arrays'[conversationHistory'[c]]
        IN  /\ Len(before) <= Len(after)
            /\ SubSeq(after, 1, Len(before)) = before

C21_TranscriptsOnlyGrow == [][C21_Step]_vars

\* C22: no read-modify-write race on a session: while a speech-result
\* request awaits the completion it asked for with the transcript it read,
\* that transcript is still the one stored under its identifier and still
\* holds what was read, so the two turns are appended to the stored
\* transcript.
C22_State ==
    \A i \in Slots :
        (tasks[i].kind = "speech" /\ tasks[i].pc = "await_completion") =>
            /\ tasks[i].callSid \in DOMAIN conversationHistory
            /\ conversationHistory[tasks[i].callSid] = tasks[i].history
            /\ Tail(arrays[tasks[i].history])
                   = SubSeq(tasks[i].messages, 2, Len(tasks[i].messages) - 1)

C22_Step ==
    \A i \in Slots :
        ( /\ tasks[i].kind = "speech"
          /\ tasks[i].pc = "await_completion"
          /\ arrays' # arrays
          /\ tasks[i].history \in DOMAIN arrays'
          /\ arrays'[tasks[i].history] # arrays[tasks[i].history]
          /\ tasks'[i].pc # "await_completion" ) =>
            /\ tasks[i].callSid \in DOMAIN conversationHistory'
            /\ conversationHistory'[tasks[i].callSid] = tasks[i].history

C22_NoRaceOnSession == [] C22_State /\ [][C22_Step]_vars

\* C23: only the call-start webhook adds an identifier to the store: every
\* step that adds one is a call start and adds the identifier it was called
\* with, and a speech-result request whose session was deleted while it was
\* in progress finishes with the identifier still absent.
C23_Step ==
    /\ DOMAIN conversationHistory' \ DOMAIN conversationHistory # { } =>
          /\ res'.handler = "twilio-voice"
          /\ DOMAIN conversationHistory' \ DOMAIN conversationHistory
                 = { res'.callSid }
    /\ \A i \in Slots :
          ( /\ tasks[i].kind = "speech"
            /\ tasks'[i] # tasks[i]
            /\ tasks[i].callSid \notin DOMAIN conversationHistory ) =>
              tasks[i].callSid \notin DOMAIN conversationHistory'

C23_OnlyCallStartAddsSessions == [][C23_Step]_vars

C23_Witness ==
    /\ res.handler = "handle-speech"
    /\ res.synthesis = "ok"
    /\ res.callSid \notin DOMAIN conversationHistory
    /\ \E k \in 1..MaxUuid : AudioFilePath(k) \in files

\* C24: once a call has ended (a terminal call-status callback deleted its
\* session), no completion and no synthesis is requested for it and no audio
\* file is written for it, even by a speech-result request that was in
\* progress when the call ended.
C24_Step ==
    \A i \in Slots :
        ( /\ tasks[i].kind = "speech"
          /\ tasks[i].callSid \notin DOMAIN conversationHistory ) =>
            /\ tasks'[i].pc # tasks[i].pc =>
                   tasks'[i].pc \notin { "await_completion", "await_synthesis" }
            /\ (tasks[i].pc = "await_synthesis" /\ tasks'[i].pc # "await_synthesis") =>
                   files' \subseteq files

C24_EndedCallStartsNothing == [][C24_Step]_vars

\* C25: when a deletion timer fires, its file is absent afterwards and its
\* path is no longer a key of the pending map; hence the pending map holds
\* exactly the paths that were scheduled and whose timer has neither fired
\* nor been cleared by a flush, each with its own armed timer.
C25_State ==
    /\ DOMAIN audioCleanupQueue =
           { AudioFilePath(k) : k \in 1..uuid } \ DOMAIN unlinkCalls
    /\ DOMAIN audioCleanupQueue = { timers[t].path : t \in DOMAIN timers }
    /\ \A p \in DOMAIN audioCleanupQueue :
          /\ audioCleanupQueue[p] \in DOMAIN timers
          /\ timers[audioCleanupQueue[p]].path = p

C25_Step ==
    \A t \in DOMAIN timers :
        CleanupTimer(t) =>
            /\ timers[t].path \notin files'
            /\ timers[t].path \notin DOMAIN audioCleanupQueue'
            /\ t \notin DOMAIN timers'
            /\ \A p \in DOMAIN audioCleanupQueue \ { timers[t].path } :
                  /\ p \in DOMAIN audioCleanupQueue'
                  /\ audioCleanupQueue'[p] = audioCleanupQueue[p]

C26_EitherTagMissingGivesBothDefaults ==
    (call.fn = "detectLanguageAndCorrect"
        /\ call.outcome.kind = "ok"
        /\ call.outcome.content
               \in { ReplyPromptFormat, ReplyLanguageOnly, ReplyCorrectedOnly })
        => /\ call.returned.language = "en"
           /\ call.returned.correctedText = call.arg

\* C26, amended: each tag has its own default: the language is en exactly
\* when the LANGUAGE tag does not parse, and otherwise the two letters after
\* it in lower case; the corrected text is the original input exactly when
\* the CORRECTED tag does not parse, and otherwise the trimmed text after it.
C26_EachTagDefaultsOnItsOwn ==
    (call.fn = "detectLanguageAndCorrect" /\ call.outcome.kind = "ok") =>
        LET reply == call.outcome.content
        IN  /\ ~call.returned.threw
            /\ call.returned.language =
                   CASE reply = ReplyTagged -> "hi"
                     [] reply = ReplyLanguageOnly -> "fr"
                     [] OTHER -> "en"
            /\ call.returned.correctedText =
                   CASE reply = ReplyTagged -> "mujhe drawing pasand hai"
                     [] reply = ReplyCorrectedOnly -> "I like drawing."
                     [] OTHER -> call.arg

C26_Witness ==
    /\ call.fn = "detectLanguageAndCorrect"
    /\ call.outcome.kind = "ok"
    /\ call.outcome.content = ReplyLanguageOnly
    /\ call.arg = "I like drawing"
    /\ call.returned.language = "fr"
    /\ call.returned.correctedText = "I like drawing"

\* C27: the service asks the provider for the format it parses: a reply in
\* the format its prompt requests yields the language code and the
\* corrected text the reply carries, not the defaults (en and the input).
C27_RequestedFormatIsParsed ==
    (call.fn = "detectLanguageAndCorrect"
        /\ call.outcome.kind = "ok"
        /\ call.outcome.content = ReplyPromptFormat)
        => ~ ( /\ call.returned.language = "en"
               /\ call.returned.correctedText = call.arg )

\* C28: a web chat request carrying the greeting sentinel makes no
\* correction call and no completion call (it never awaits either and builds
\* no message array), and its response reports the detected language en.
C28_GreetingCallsNoProvider ==
    /\ \A i \in Slots :
          (tasks[i].kind = "chat" /\ tasks[i].input = GreetingSentinel) =>
              /\ tasks[i].pc \notin { "await_correction", "await_completion" }
              /\ tasks[i].messages = << >>
              /\ tasks[i].detectedLanguage = "en"
    /\ (res.handler = "chat" /\ res.input = GreetingSentinel) =>
              /\ res.status = 200
              /\ res.body.detectedLanguage = "en"

C28_Witness ==
    /\ \E i \in Slots : /\ tasks[i].kind = "chat"
                        /\ tasks[i].input = GreetingSentinel
                        /\ tasks[i].pc = "await_synthesis"
    /\ \E j \in Slots : /\ tasks[j].kind = "chat"
                        /\ tasks[j].input = "I like drawing"
                        /\ tasks[j].pc = "await_completion"

\* C29: an unhandled promise rejection is only logged: the process stays
\* alive, nothing is flushed, and the session store, the transcripts, the
\* pending map, the timers and the files are unchanged; an uncaught
\* exception flushes the pending artifacts and ends the process with code 1.
C29_Step ==
    /\ UnhandledRejection =>
          /\ proc' = "running"
          /\ UNCHANGED << conversationHistory, arrays, audioCleanupQueue,
                          timers, files, unlinkCalls, tasks >>
    /\ Shutdown("uncaughtException") =>
          /\ proc' = "exit1"
          /\ audioCleanupQueue' = EmptyMap
          /\ timers' = EmptyMap
          /\ DOMAIN audioCleanupQueue \cap files' = { }

C29_RejectionIsOnlyLogged == [][C29_Step]_vars

C29_Witness ==
    /\ call.fn = "unhandledRejection"
    /\ proc = "running"
    /\ call.arg # { }
    /\ call.arg \subseteq DOMAIN audioCleanupQueue
    /\ call.arg \subseteq files
    /\ "CA1" \in DOMAIN conversationHistory
    /\ Len(arrays[conversationHistory["CA1"]]) = 3

\* C30: a phone turn updates its transcript all at once or not at all: the
\* return of the correction and a failed completion leave every transcript
\* as it was, a completion that gives a reply appends the user and the
\* assistant entry together, and no outcome of the synthesis that follows
\* changes a transcript; hence every transcript has an odd length.
C30_State ==
    \A r \in DOMAIN arrays : Len(arrays[r]) % 2 = 1

C30_Step ==
    LET untouched == \A r \in DOMAIN arrays' : arrays'[r] = arrays[r]
        leaves(i, pc) == /\ tasks[i].kind = "speech"
                         /\ tasks[i].pc = pc
                         /\ tasks'[i].pc # pc
                         /\ proc' = "running"
    IN  \A i \in Slots :
            /\ leaves(i, "await_correction") => untouched
            /\ leaves(i, "await_completion") =>
                  IF res' = SpeechErrorRes(tasks[i])
                  THEN untouched
                  ELSE \A r \in DOMAIN arrays' :
                           IF r = tasks[i].history
                           THEN /\ Len(arrays'[r]) = Len(arrays[r]) + 2
                                /\ arrays'[r][Len(arrays[r]) + 1].role = "user"
                                /\ arrays'[r][Len(arrays[r]) + 2].role = "assistant"
                           ELSE arrays'[r] = arrays[r]
            /\ leaves(i, "await_synthesis") => untouched

C30_TurnIsAllOrNothing == [] C30_State /\ [][C30_Step]_vars

C30_Witness ==
    /\ res.handler = "handle-speech"
    /\ res.synthesis = "rejected"
    /\ res.callSid \in DOMAIN conversationHistory
    /\ Len(arrays[conversationHistory[res.callSid]]) = 3
    /\ arrays[conversationHistory[res.callSid]][3].content \in GptReplies

\* C31: a call-status callback with a non-terminal status leaves the whole
\* session store unchanged; one with a terminal status removes at most the
\* session of its own call identifier; either way every other session keeps
\* its transcript and the pending map, the timers and the files are
\* unchanged.
C31_Step ==
    \A c \in CallSids, s \in CallStatuses :
        (res'.handler = "call-status" /\ res'.callSid = c /\ CallStatus(c, s)) =>
            /\ s \notin TerminalStatuses =>
                  UNCHANGED << conversationHistory, arrays >>
            /\ DOMAIN conversationHistory \ { c }
                   \subseteq DOMAIN conversationHistory'
            /\ DOMAIN conversationHistory' \subseteq DOMAIN conversationHistory
            /\ \A d \in DOMAIN conversationHistory' :
                  /\ conversationHistory'[d] = conversationHistory[d]
                  /\ arrays'[conversationHistory'[d]]
                         = arrays[conversationHistory[d]]
            /\ UNCHANGED << audioCleanupQueue, timers, files >>

C31_CallStatusFrame == [][C31_Step]_vars

C31_Witness ==
    /\ res.handler = "call-status"
    /\ res.callSid = "CA1"
    /\ res.deleted
    /\ DOMAIN conversationHistory = { "CA2" }
    /\ Len(arrays[conversationHistory["CA2"]]) = 3
    /\ audioCleanupQueue # EmptyMap

\* C32: every speech-collection instruction issued on the phone channel
\* (call start, reply played as synthesized audio, reply spoken natively,
\* synthesis fallback, error retry, re-prompt) is configured with the same
\* recognition languages, the multi-language list of the telephony
\* configuration.
C32_EveryGatherListensInAllLanguages ==
    res.handler \in { "twilio-voice", "handle-speech" } =>
        /\ Gathers(res.twiml) # { }
        /\ \A k \in Gathers(res.twiml) :
              res.twiml[k].language = twilioConfig.language


\* the language an Indian locale tag stands for, by its primary subtag
\* (ISO 639-1)
C33_LanguageOfLocale(tag) ==
    CASE tag = "en-IN" -> "English"
      [] tag = "hi-IN" -> "Hindi"
      [] tag = "ta-IN" -> "Tamil"
      [] tag = "te-IN" -> "Telugu"
      [] tag = "ml-IN" -> "Malayalam"
      [] tag = "kn-IN" -> "Kannada"
      [] tag = "mr-IN" -> "Marathi"
      [] tag = "bn-IN" -> "Bengali"
      [] tag = "gu-IN" -> "Gujarati"
      [] tag = "pa-IN" -> "Punjabi"
      [] OTHER -> Undefined

\* C33: for every code the correction service can return (two lower-case
\* letters), the language named in the response-language instruction and
\* the locale tag sent to the synthesis are the same language; a code
\* outside the ten supported ones gives English and en-IN.
C33_InstructionAndVoiceAgree ==
    call.fn = "turnLanguage" =>
        /\ C33_LanguageOfLocale(call.returned.target_language_code) =
               call.returned.languageName
        /\ call.arg \notin { "en", "hi", "ta", "te", "ml", "kn", "mr", "bn",
                             "gu", "pa" } =>
               /\ call.returned.languageName = "English"
               /\ call.returned.target_language_code = "en-IN"

C33_Witness ==
    /\ call.fn = "turnLanguage"
    /\ call.arg = "ml"
    /\ call.returned.languageName = "Malayalam"
    /\ call.returned.target_language_code = "ml-IN"


\* C34: for every multipart upload the upload middleware passes control
\* onward once: the call of next in its finish handler is never made for a
\* request for which next was called before, and no request is answered
\* after it was answered.
C34_Step ==
    \A i \in Slots :
        UploadFinished(i) =>
            /\ tasks[i].nextCalls + 1 <= 1
            /\ res'.status = 0

C34_ControlIsPassedOnce == [][C34_Step]_vars


\* C35: when the transcription endpoint answers a request that carried an
\* accepted upload, with a 2xx after a transcription or with a 5xx after a
\* failure, the uploaded temporary file no longer exists; while the process
\* runs an upload file exists only as long as its request awaits the
\* speech-to-text provider.
C35_State ==
    \A k \in 1..MaxUuid, m \in allowedMimes :
        (proc = "running" /\ UploadFilePath(k, UploadExt(m)) \in files) =>
            \E i \in Slots : /\ tasks[i].pc = "await_transcription"
                             /\ tasks[i].file = UploadFilePath(k, UploadExt(m))

C35_Step ==
    \A i \in Slots :
        (/\ tasks[i].pc = "await_transcription"
         /\ tasks'[i].pc # "await_transcription"
         /\ proc' = "running") =>
            /\ tasks[i].file \in files
            /\ tasks[i].file \notin files'
            /\ res'.handler = "transcribe"
            /\ res'.status \in { 200, 500 }

C35_UploadIsGoneAfterTheAnswer == [] C35_State /\ [][C35_Step]_vars

C35_Witness ==
    /\ res.handler = "transcribe"
    /\ res.status = 500
    /\ uuid = 1
    /\ UploadFilePath(1, "wav") \notin files
    /\ CountOf(unlinkCalls, UploadFilePath(1, "wav")) = 1

====
